---- MODULE Spec2Model ----
(***************************************************************************)
(* A model of the tim space server (crate tim-code): the event bus         *)
(* TimSpace with its id allocator, persisted event log, subscriber         *)
(* registry, fan-out and presence events, and the message, ability and     *)
(* outcome handlers of TimApi that publish through it.                     *)
(*                                                                         *)
(* Every RPC handler is an async task.  A task is cut into one atomic step *)
(* per access to shared state (an atomic counter, the store, the           *)
(* subscribers lock, a channel), so that the steps of concurrently running *)
(* handlers interleave as they do on the multi-threaded runtime.           *)
(***************************************************************************)
EXTENDS Integers, Sequences, FiniteSets, TLC

(***************************************************************************)
(* Bounds of the model.                                                    *)
(***************************************************************************)
NumTasks == 2           \* handlers that may be in flight at the same time
MaxEvents == 4          \* Spec: event ids allocated in one run
MaxSubscribes == 2      \* Spec: subscribe calls (channels created) in one run
MaxMessages == 1        \* Spec: message ids allocated in one run
AbilityMaxEvents == 3   \* SpecAbility: event ids allocated in one run
AbilityMaxCalls == 1    \* SpecAbility: call ids allocated in one run
IdsMaxEvents == 2       \* SpecIds: event ids allocated in one run
IdsMaxIds == 2          \* SpecIds: ids each service allocates between two restarts
ContentMaxMessages == 2 \* SpecContent: message ids allocated in one run
ResubMaxEvents == 3     \* SpecResubscribe: event ids allocated in one run
ResubMaxSubscribes == 2 \* SpecResubscribe: subscribe calls in one run
CleanupMaxEvents == 3   \* SpecCleanup: event ids allocated in one run
CleanupMaxSubscribes == 2 \* SpecCleanup: subscribe calls in one run
RocksThreads == 2       \* SpecRocks: threads calling register at a time
RocksMaxIds == 3        \* SpecRocks: largest value of id_counter
StreamMaxEvents == 3    \* SpecStream: event ids allocated in one run
StreamMaxPage == 3      \* SpecStream: largest page_size of a timeline_stream
CallsTasks == 2         \* SpecCalls: handlers in flight at a time
CallsMaxEvents == 3     \* SpecCalls: event ids allocated in one run
CallsMaxCalls == 2      \* SpecCalls: call ids allocated between two restarts
RaceMaxEvents == 3      \* SpecRace: event ids allocated in one run
RaceMaxSubscribes == 1  \* SpecRace: subscribe calls in one run
RaceMaxMessages == 2    \* SpecRace: message ids allocated in one run
RestartMaxEvents == 2   \* SpecRestart: event ids allocated in one run
MaxRestarts == 1        \* SpecRestart: process restarts
FullMaxOverflow == 1    \* SpecFull: publishes beyond the capacity of one queue
TimelineMaxEvents == 3  \* SpecTimeline: event ids allocated in one run
TimelineMaxArg == 3     \* SpecTimeline: largest offset and size of a timeline request
SessionMaxTimites == 1  \* SpecSession: participants registered in one run
SessionMaxKeys == 2     \* SpecSession: session keys generated in one run

(***************************************************************************)
(* Program constants.                                                      *)
(***************************************************************************)
BUFFER_SIZE == 10

VARIABLES
    ev_log,            \* store, family log, keys ev:<id>: id -> SpaceEvent
    acall_log,         \* store, family log, keys acall:<id>: id -> CallAbility
    msg_log,           \* store, family log, keys msg:<id>: id -> Message
    sessions,          \* store, family secrets: session key -> Session
    timites,           \* store, family data, keys t:id:<id>: id -> Timite
    abilities,         \* store, family data: timite id -> the abilities it declared
    id_cnt,            \* TimTimite.id_cnt
    upd_counter,       \* TimSpace.upd_counter
    msg_counter,       \* TimMessage.msg_counter
    call_ability_cnt,  \* TimAbility.call_ability_cnt
    subscribers,       \* TimSpace.subscribers: session key -> Subscriber
    chans,             \* the mpsc channels created by subscribe, in creation order
    tasks,             \* the handlers in flight: their position and locals
    boot,              \* what TimSpace::new read from the store at the last start
    lim,               \* the bounds of the run
    rocks,             \* RocksDbStorage: its db, its id_counter, its callers
    stream             \* the agent's timeline_stream: its State and what it yielded

storeVars == <<ev_log, acall_log, msg_log, sessions, timites, abilities>>
memVars == <<upd_counter, msg_counter, call_ability_cnt, id_cnt, subscribers, chans,
            tasks>>
vars == <<ev_log, acall_log, msg_log, sessions, timites, abilities, upd_counter,
          msg_counter, call_ability_cnt, id_cnt, subscribers, chans, tasks, boot, lim,
          rocks, stream>>

Tasks == 1..NumTasks

(***************************************************************************)
(* Option<T> is a set with at most one element.                            *)
(***************************************************************************)
None == {}
Some(x) == {x}

Max(S) == CHOOSE x \in S : \A y \in S : y <= x

(***************************************************************************)
(* Maps (HashMap, and the key-value store) are functions with a growing    *)
(* and shrinking domain.                                                   *)
(***************************************************************************)
EmptyMap == [x \in {} |-> x]
Put(f, k, v) == [x \in (DOMAIN f) \cup {k} |-> IF x = k THEN v ELSE f[x]]
Remove(f, k) == [x \in (DOMAIN f) \ {k} |-> f[x]]
Values(f) == {f[x] : x \in DOMAIN f}

(***************************************************************************)
(* All the orders in which a set can be enumerated (HashMap iteration).    *)
(***************************************************************************)
RECURSIVE Orders(_)
Orders(S) ==
    IF S = {} THEN {<<>>}
    ELSE UNION {{<<x>> \o rest : rest \in Orders(S \ {x})} : x \in S}

(***************************************************************************)
(* The store (TimStorage).                                                 *)
(***************************************************************************)
store_space_event(log, event) == Put(log, event.metadata.id, event)
fetch_max_event_id(log) == IF DOMAIN log = {} THEN 0 ELSE Max(DOMAIN log)
store_message(log, msg_id, message) == Put(log, msg_id, message)
fetch_max_message_id(log) == IF DOMAIN log = {} THEN 0 ELSE Max(DOMAIN log)
store_call_ability(log, call_ability_id, call_ability) ==
    Put(log, call_ability_id, call_ability)
fetch_call_ability(log, call_ability_id) ==
    IF call_ability_id \in DOMAIN log THEN Some(log[call_ability_id]) ELSE None
fetch_max_call_ability_id(log) == IF DOMAIN log = {} THEN 0 ELSE Max(DOMAIN log)
fetch_max_timite_id(log) == IF DOMAIN log = {} THEN 0 ELSE Max(DOMAIN log)

store_session(log, session) == Put(log, session.key, session)
find_session(log, session_key) ==
    IF session_key \in DOMAIN log THEN Some(log[session_key]) ELSE None
store_timite(log, timite) == Put(log, timite.id, timite)
find_timite(log, timite_id) ==
    IF timite_id \in DOMAIN log THEN Some(log[timite_id]) ELSE None
store_timite_abilities(log, timite_id, declared) == Put(log, timite_id, declared)

\* The records of a log with ids in lo..hi, in ascending id (a range read).
RECURSIVE range_read(_, _, _)
range_read(log, lo, hi) ==
    IF lo > hi THEN <<>>
    ELSE (IF lo \in DOMAIN log THEN <<log[lo]>> ELSE <<>>) \o range_read(log, lo + 1, hi)

first_n(seq, n) == SubSeq(seq, 1, IF n < Len(seq) THEN n ELSE Len(seq))

\* TimStorage::timeline: nothing for size 0; for offset 0 the range
\* [max - size + 1 .. max] below the maximum id present; otherwise size records
\* read forward from the key of id offset.
timeline(log, offset, size) ==
    IF size = 0 \/ DOMAIN log = {} THEN <<>>
    ELSE LET max == fetch_max_event_id(log)
         IN  IF offset = 0
             THEN range_read(log, IF max + 1 > size THEN max + 1 - size ELSE 0, max)
             ELSE first_n(range_read(log, offset, max), size)

(***************************************************************************)
(* Events (tim_space.rs).  emitted_at is wall-clock time and is left out.  *)
(***************************************************************************)
event_metadata(upd_id) == [id |-> upd_id]

new_message_data(message) == [kind |-> "EventNewMessage", message |-> message]
call_ability_data(call_ability) ==
    [kind |-> "EventCallAbility", call_ability |-> call_ability]
call_ability_outcome_data(outcome) ==
    [kind |-> "EventCallAbilityOutcome", call_ability_outcome |-> outcome]
timite_connected_data(timite) == [kind |-> "EventTimiteConnected", timite |-> timite]
timite_disconnected_data(timite) ==
    [kind |-> "EventTimiteDisconnected", timite |-> timite]

space_event(upd_id, data) == [metadata |-> event_metadata(upd_id), data |-> data]

(***************************************************************************)
(* upd_counter.fetch_add(1): the id a publish stamps on its event is the   *)
(* value the counter had before the addition.                              *)
(***************************************************************************)
fetch_add_upd_id(counter) == counter

(***************************************************************************)
(* Channels.  A channel is everything sent on it so far, the number of     *)
(* events the receiver has taken, and whether the receiver is dropped.     *)
(***************************************************************************)
new_channel == [sent |-> <<>>, taken |-> 0, rx_dropped |-> FALSE]
is_closed(c) == chans[c].rx_dropped
queue_len(c) == Len(chans[c].sent) - chans[c].taken

(***************************************************************************)
(* Tasks.                                                                  *)
(***************************************************************************)
IdleTask ==
    [pc |-> "idle", op |-> "none", session |-> None, arg |-> None, data |-> None,
     event |-> None, skip_sender |-> None, todo |-> {}, disconnected |-> <<>>,
     batch |-> <<>>, origin |-> None, chan |-> None, res |-> "none", ret |-> None,
     guard |-> "none"]

Done(task, res) ==
    [task EXCEPT !.pc = "done", !.res = res, !.todo = {}, !.disconnected = <<>>,
                 !.batch = <<>>, !.origin = None]

(***************************************************************************)
(* The subscribers lock (an RwLock).  guard is the lock guard a task       *)
(* holds: a read guard is granted while no task holds the write guard, the *)
(* write guard while no other task holds any; a guard is dropped at the    *)
(* end of the block or function that took it.                              *)
(***************************************************************************)
can_read(t) == \A u \in Tasks \ {t} : tasks[u].guard # "write"
can_write(t) == \A u \in Tasks \ {t} : tasks[u].guard = "none"
read_guard(task) == [task EXCEPT !.guard = "read"]
write_guard(task) == [task EXCEPT !.guard = "write"]
drop_guard(task) == [task EXCEPT !.guard = "none"]

\* The receiver a failed subscribe was about to return is dropped with it.
DropOwnReceiver(task) ==
    IF task.chan = None THEN chans
    ELSE [c \in DOMAIN chans |->
            IF c \in task.chan THEN [chans[c] EXCEPT !.rx_dropped = TRUE] ELSE chans[c]]

(***************************************************************************)
(* TimSpace::prune_disconnected, on the map under the write lock.          *)
(***************************************************************************)
RECURSIVE prune_loop(_, _, _, _)
prune_loop(guard, disconnected, seen, removed_timites) ==
    IF disconnected = <<>> THEN [guard |-> guard, removed_timites |-> removed_timites]
    ELSE
        LET sub == Head(disconnected)
            rest == Tail(disconnected)
        IN  IF sub.session.key \notin DOMAIN guard
            THEN prune_loop(guard, rest, seen, removed_timites)
            ELSE
                LET g2 == Remove(guard, sub.session.key)
                    last == /\ sub.timite.id \notin seen
                            /\ ~\E candidate \in Values(g2) :
                                   candidate.timite.id = sub.timite.id
                IN  prune_loop(g2, rest, seen \cup {sub.timite.id},
                               IF last THEN Append(removed_timites, sub.timite)
                               ELSE removed_timites)

prune_disconnected(guard, disconnected) == prune_loop(guard, disconnected, {}, <<>>)

(***************************************************************************)
(* RocksDbStorage (tim_storage.rs): the key-value database, the counter of *)
(* participant ids, and the threads that are inside register.  handed is   *)
(* the ids next_id has returned and returned the (nick, id) pairs register *)
(* has returned, both kept for the properties.                             *)
(***************************************************************************)
Threads == 1..RocksThreads

timite_id_key(id) == "t:id:" \o ToString(id)
timite_nick_key(nick) == "t:nick:" \o nick
timite_counter_key == "cnt:t:id"

get_value(db, key) == IF key \in DOMAIN db THEN Some(db[key]) ELSE None
put_value(db, key, value) == Put(db, key, value)
unwrap_or(opt, default) == IF opt = None THEN default ELSE CHOOSE x \in opt : TRUE

IdleCall == [pc |-> "idle", nick |-> "", id |-> 0, res |-> "none"]

\* RocksDbStorage::new over a database: the counter is loaded from it.
RocksDbStorage_new(db) ==
    [db |-> db, id_counter |-> unwrap_or(get_value(db, timite_counter_key), 1),
     calls |-> [th \in Threads |-> IdleCall], handed |-> <<>>, returned |-> {}]

(***************************************************************************)
(* The agent's TimClient::timeline_stream (tim-agent, tim_client.rs): the  *)
(* State of the unfold, and the pages it has yielded so far.               *)
(***************************************************************************)
NoStream ==
    [pc |-> "none", offset |-> 0, page_size |-> 0, finished |-> FALSE,
     yielded |-> <<>>, failed |-> FALSE]

(***************************************************************************)
(* The state after construction over a store that holds two participants   *)
(* and three sessions: k1 and k2 belong to participant 1, k3 to 2.         *)
(***************************************************************************)
InitSessions ==
    [k \in {"k1", "k2", "k3"} |->
        [key |-> k, timite_id |-> IF k = "k3" THEN 2 ELSE 1]]
InitTimites ==
    [i \in {1, 2} |-> [id |-> i, nick |-> IF i = 1 THEN "alpha" ELSE "beta"]]

InitState ==
    /\ ev_log = EmptyMap
    /\ acall_log = EmptyMap
    /\ msg_log = EmptyMap
    /\ sessions = InitSessions
    /\ timites = InitTimites
    /\ abilities = EmptyMap
    /\ id_cnt = fetch_max_timite_id(InitTimites)
    /\ upd_counter = fetch_max_event_id(EmptyMap)
    /\ msg_counter = fetch_max_message_id(EmptyMap)
    /\ call_ability_cnt = fetch_max_call_ability_id(EmptyMap)
    /\ subscribers = EmptyMap
    /\ chans = <<>>
    /\ tasks = [t \in Tasks |-> IdleTask]
    /\ boot = [restarts |-> 0, had_events |-> FALSE, max_event_id |-> 0]
    /\ rocks = RocksDbStorage_new(EmptyMap)
    /\ stream = NoStream

(***************************************************************************)
(* Helpers of the handlers.                                                *)
(***************************************************************************)
The(opt) == CHOOSE x \in opt : TRUE

\* Handlers are interchangeable: a new one takes the first free slot.
Free(t) ==
    /\ t <= lim.tasks
    /\ tasks[t].pc = "idle"
    /\ \A u \in Tasks : u < t => tasks[u].pc # "idle"

Started(op, session) == [IdleTask EXCEPT !.op = op, !.session = Some(session)]

BeginPublish(task, data, skip_sender) ==
    [task EXCEPT !.pc = "alloc", !.data = Some(data), !.event = None,
                 !.skip_sender = skip_sender, !.todo = {}, !.disconnected = <<>>]

(***************************************************************************)
(* TimApi::send_message -> TimMessage::process_message, up to the call of  *)
(* publish_message: the message id is allocated and the message stored     *)
(* (which may fail), then the publish begins.                              *)
(***************************************************************************)
\* The handler taking the value fetch_add returns as the message id.
send_message_fetch_add_only(t, k, content) ==
    /\ Free(t)
    /\ msg_counter < lim.messages
    /\ LET session == sessions[k]
           msg_id == msg_counter
           message == [id |-> msg_id, sender_id |-> session.timite_id,
                       content |-> content]
           started == [Started("send_message", session) EXCEPT
                           !.arg = Some([content |-> content])]
       IN  /\ msg_counter' = msg_counter + 1
           /\ \/ /\ msg_log' = store_message(msg_log, msg_id, message)
                 /\ tasks' = [tasks EXCEPT ![t] =
                        BeginPublish(started, new_message_data(message),
                                     Some(message.sender_id))]
              \/ /\ lim.faults
                 /\ msg_log' = msg_log
                 /\ tasks' = [tasks EXCEPT ![t] = Done(started, "StorageError")]
    /\ UNCHANGED <<ev_log, acall_log, sessions, timites, abilities, upd_counter,
                   call_ability_cnt, id_cnt, subscribers, chans, boot, lim, rocks, stream>>

send_message(t, k, content) ==
    /\ Free(t)
    /\ msg_counter < lim.messages
    /\ LET session == sessions[k]
           msg_id == msg_counter + 1
           message == [id |-> msg_id, sender_id |-> session.timite_id,
                       content |-> content]
           started == [Started("send_message", session) EXCEPT
                           !.arg = Some([content |-> content])]
       IN  /\ msg_counter' = msg_id
           /\ \/ /\ msg_log' = store_message(msg_log, msg_id, message)
                 /\ tasks' = [tasks EXCEPT ![t] =
                        BeginPublish(started, new_message_data(message),
                                     Some(message.sender_id))]
              \/ /\ lim.faults
                 /\ msg_log' = msg_log
                 /\ tasks' = [tasks EXCEPT ![t] = Done(started, "StorageError")]
    /\ UNCHANGED <<ev_log, acall_log, sessions, timites, abilities, upd_counter,
                   call_ability_cnt, id_cnt, subscribers, chans, boot, lim, rocks, stream>>

(***************************************************************************)
(* process_call_ability: the clone of the call with call_ability_id and    *)
(* sender_id overwritten.                                                  *)
(***************************************************************************)
\* The copy that keeps a call_ability_id the request already carries.
with_client_call_id(call_ability, call_ability_id, session) ==
    [call_ability EXCEPT
        !.call_ability_id = IF call_ability.call_ability_id = None
                            THEN Some(call_ability_id)
                            ELSE call_ability.call_ability_id,
        !.sender_id = session.timite_id]

with_client_sender(call_ability, call_ability_id, session) ==
    [call_ability EXCEPT !.call_ability_id = Some(call_ability_id)]

with_server_fields(call_ability, call_ability_id, session) ==
    [call_ability EXCEPT !.call_ability_id = Some(call_ability_id),
                         !.sender_id = session.timite_id]

(***************************************************************************)
(* TimApi::send_call_ability -> TimAbility::process_call_ability, up to    *)
(* the call of publish_call_ability.  The call as the client sent it is    *)
(* stored; the copy with the id and the sender overwritten is published,   *)
(* with no sender to skip.                                                 *)
(***************************************************************************)
send_call_ability(t, k, target, client_sender_id, client_call_ability_id) ==
    /\ Free(t)
    /\ call_ability_cnt < lim.calls
    /\ LET session == sessions[k]
           call_ability == [call_ability_id |-> client_call_ability_id,
                            sender_id |-> client_sender_id,
                            timite_id |-> target, name |-> "echo", payload |-> "hi"]
           call_ability_id == call_ability_cnt + 1
           call_ability_with_id ==
               with_server_fields(call_ability, call_ability_id, session)
           started == [Started("send_call_ability", session) EXCEPT
                           !.arg = Some(call_ability),
                           !.ret = Some(call_ability_id)]
       IN  /\ call_ability_cnt' = call_ability_id
           /\ \/ /\ acall_log' = store_call_ability(acall_log, call_ability_id,
                                                    call_ability)
                 /\ tasks' = [tasks EXCEPT ![t] =
                        BeginPublish(started, call_ability_data(call_ability_with_id),
                                     None)]
              \/ /\ lim.faults
                 /\ acall_log' = acall_log
                 /\ tasks' = [tasks EXCEPT ![t] =
                        Done([started EXCEPT !.ret = None], "StorageError")]
    /\ UNCHANGED <<ev_log, msg_log, sessions, timites, abilities, upd_counter,
                   msg_counter, id_cnt, subscribers, chans, boot, lim, rocks, stream>>

(***************************************************************************)
(* TimApi::send_call_ability_outcome, up to the call of                    *)
(* publish_call_outcome.                                                   *)
(***************************************************************************)
\* The handler taking a missing call for an empty one (target 0).
send_call_ability_outcome_or_default(t, k, call_ability_id) ==
    /\ Free(t)
    /\ LET session == sessions[k]
           outcome == [call_ability_id |-> call_ability_id, payload |-> Some("done"),
                       error |-> None]
           started == [Started("send_call_ability_outcome", session) EXCEPT
                           !.arg = Some(outcome)]
           found == fetch_call_ability(acall_log, call_ability_id)
           target == IF found = None THEN 0 ELSE The(found).timite_id
       IN  tasks' = [tasks EXCEPT ![t] =
               IF target # session.timite_id
               THEN Done(started, "CallAbilityTargetMismatch")
               ELSE BeginPublish(started, call_ability_outcome_data(outcome),
                                 Some(session.timite_id))]
    /\ UNCHANGED <<storeVars, upd_counter, msg_counter, call_ability_cnt,
                   id_cnt, subscribers, chans, boot, lim, rocks, stream>>

\* The handler without the comparison of the call's target with the session.
send_call_ability_outcome_unguarded(t, k, call_ability_id) ==
    /\ Free(t)
    /\ LET session == sessions[k]
           outcome == [call_ability_id |-> call_ability_id, payload |-> Some("done"),
                       error |-> None]
           started == [Started("send_call_ability_outcome", session) EXCEPT
                           !.arg = Some(outcome)]
           found == fetch_call_ability(acall_log, call_ability_id)
       IN  tasks' = [tasks EXCEPT ![t] =
               IF found = None THEN Done(started, "CallAbilityMissing")
               ELSE BeginPublish(started, call_ability_outcome_data(outcome),
                                 Some(session.timite_id))]
    /\ UNCHANGED <<storeVars, upd_counter, msg_counter, call_ability_cnt,
                   id_cnt, subscribers, chans, boot, lim, rocks, stream>>

send_call_ability_outcome(t, k, call_ability_id) ==
    /\ Free(t)
    /\ LET session == sessions[k]
           outcome == [call_ability_id |-> call_ability_id, payload |-> Some("done"),
                       error |-> None]
           started == [Started("send_call_ability_outcome", session) EXCEPT
                           !.arg = Some(outcome)]
           found == fetch_call_ability(acall_log, call_ability_id)
       IN  tasks' = [tasks EXCEPT ![t] =
               IF found = None THEN Done(started, "CallAbilityMissing")
               ELSE IF The(found).timite_id # session.timite_id
                    THEN Done(started, "CallAbilityTargetMismatch")
                    ELSE BeginPublish(started, call_ability_outcome_data(outcome),
                                      Some(session.timite_id))]
    /\ UNCHANGED <<storeVars, upd_counter, msg_counter, call_ability_cnt,
                   id_cnt, subscribers, chans, boot, lim, rocks, stream>>

(***************************************************************************)
(* TimApi::get_timeline: the events of TimSpace::timeline(offset, size)    *)
(* and the participants the message and call events among them name, as    *)
(* far as they are registered.                                             *)
(***************************************************************************)
collect_timite_ids(events) ==
    UNION {IF events[i].data.kind = "EventNewMessage"
               THEN {events[i].data.message.sender_id}
           ELSE IF events[i].data.kind = "EventCallAbility"
               THEN {events[i].data.call_ability.sender_id,
                     events[i].data.call_ability.timite_id}
           ELSE {} : i \in 1..Len(events)}

get_timeline_swapped(t, k, offset, size) ==
    /\ Free(t)
    /\ LET session == sessions[k]
           started == [Started("get_timeline", session) EXCEPT
                           !.arg = Some([offset |-> offset, size |-> size])]
           events == timeline(ev_log, size, offset)
           found == collect_timite_ids(events) \cap DOMAIN timites
           res == [offset |-> offset, size |-> size, events |-> events,
                   timites |-> range_read([i \in found |-> timites[i]], 0,
                                          Max(found \cup {0}))]
       IN  \/ tasks' = [tasks EXCEPT ![t] =
                  Done([started EXCEPT !.ret = Some(res)], "Ok")]
           \/ /\ lim.faults
              /\ tasks' = [tasks EXCEPT ![t] = Done(started, "StorageError")]
    /\ UNCHANGED <<storeVars, upd_counter, msg_counter, call_ability_cnt,
                   id_cnt, subscribers, chans, boot, lim, rocks, stream>>

get_timeline(t, k, offset, size) ==
    /\ Free(t)
    /\ LET session == sessions[k]
           started == [Started("get_timeline", session) EXCEPT
                           !.arg = Some([offset |-> offset, size |-> size])]
           events == timeline(ev_log, offset, size)
           found == collect_timite_ids(events) \cap DOMAIN timites
           res == [offset |-> offset, size |-> size, events |-> events,
                   timites |-> range_read([i \in found |-> timites[i]], 0,
                                          Max(found \cup {0}))]
       IN  \/ tasks' = [tasks EXCEPT ![t] =
                  Done([started EXCEPT !.ret = Some(res)], "Ok")]
           \/ /\ lim.faults
              /\ tasks' = [tasks EXCEPT ![t] = Done(started, "StorageError")]
    /\ UNCHANGED <<storeVars, upd_counter, msg_counter, call_ability_cnt,
                   id_cnt, subscribers, chans, boot, lim, rocks, stream>>

(***************************************************************************)
(* TimSpace::subscribe, the block under the write lock: create the         *)
(* channel, drop the closed entries, look for the participant, insert.     *)
(* If the participant was not present the connected event is published.    *)
(***************************************************************************)
subscribe(t, k, receive_own_messages) ==
    /\ Free(t)
    /\ Len(chans) < lim.subscribes
    /\ can_write(t)
    /\ LET session == sessions[k]
           timite == timites[session.timite_id]
           c == Len(chans) + 1
           retained == [x \in {y \in DOMAIN subscribers :
                                 ~is_closed(subscribers[y].chan)} |-> subscribers[x]]
           present == \E subscriber \in Values(retained) :
                          subscriber.timite.id = timite.id
           entry == [receive_own_messages |-> receive_own_messages, chan |-> c,
                     session |-> session, timite |-> timite]
           locked == write_guard([Started("subscribe", session) EXCEPT
                                     !.chan = Some(c)])
           started == drop_guard(locked)
       IN  /\ chans' = Append(chans, new_channel)
           /\ subscribers' = Put(retained, session.key, entry)
           /\ tasks' = [tasks EXCEPT ![t] =
                  IF present THEN Done(started, "Ok")
                  ELSE BeginPublish(started, timite_connected_data(timite), None)]
    /\ UNCHANGED <<storeVars, upd_counter, msg_counter, call_ability_cnt,
                   id_cnt, boot, lim, rocks, stream>>

(***************************************************************************)
(* TimSpace::cleanup_disconnected, up to the call of prune_disconnected:   *)
(* the snapshot filtered by is_closed.  One periodic task runs it.         *)
(***************************************************************************)
cleanup_disconnected(t) ==
    /\ Free(t)
    /\ \A u \in Tasks : tasks[u].op # "cleanup_disconnected"
    /\ can_read(t)
    /\ LET closed == {sub \in Values(subscribers) : is_closed(sub.chan)}
       IN  \E order \in Orders(closed) :
               tasks' = [tasks EXCEPT ![t] =
                   drop_guard([read_guard(IdleTask) EXCEPT
                                   !.pc = "send", !.op = "cleanup_disconnected",
                                   !.disconnected = order,
                                   !.ret = Some(Len(order))])]
    /\ UNCHANGED <<storeVars, upd_counter, msg_counter, call_ability_cnt,
                   id_cnt, subscribers, chans, boot, lim, rocks, stream>>

(***************************************************************************)
(* The publish_* functions of TimSpace, step by step.                      *)
(***************************************************************************)
\* let upd_id = self.upd_counter.fetch_add(1, Relaxed); the event is built.
\* An allocation that stamps a disconnected event of a batch with the id of
\* the event whose publish started the batch.
publish_alloc_shared_id(t) ==
    /\ tasks[t].pc = "alloc"
    /\ upd_counter < lim.events
    /\ LET upd_id == IF tasks[t].origin = None THEN fetch_add_upd_id(upd_counter)
                     ELSE The(tasks[t].origin).metadata.id
       IN  tasks' = [tasks EXCEPT ![t].pc = "store",
                        ![t].event = Some(space_event(upd_id, The(tasks[t].data)))]
    /\ upd_counter' = upd_counter + 1
    /\ UNCHANGED <<storeVars, msg_counter, call_ability_cnt, id_cnt,
                   subscribers, chans, boot, lim, rocks, stream>>

publish_alloc(t) ==
    /\ tasks[t].pc = "alloc"
    /\ upd_counter < lim.events
    /\ LET upd_id == fetch_add_upd_id(upd_counter)
       IN  tasks' = [tasks EXCEPT ![t].pc = "store",
                        ![t].event = Some(space_event(upd_id, The(tasks[t].data)))]
    /\ upd_counter' = upd_counter + 1
    /\ UNCHANGED <<storeVars, msg_counter, call_ability_cnt, id_cnt,
                   subscribers, chans, boot, lim, rocks, stream>>

\* A publish that goes on to the fan-out although the store failed.
publish_store_unchecked(t) ==
    /\ tasks[t].pc = "store"
    /\ \/ ev_log' = store_space_event(ev_log, The(tasks[t].event))
       \/ ev_log' = ev_log
    /\ tasks' = [tasks EXCEPT ![t].pc = "snapshot"]
    /\ UNCHANGED <<acall_log, msg_log, sessions, timites, abilities,
                   upd_counter, msg_counter, call_ability_cnt, id_cnt,
                   subscribers, chans, boot, lim, rocks, stream>>

\* A publish that, when the store fails, takes the publisher's own entry out
\* of the registry before it returns the error.
publish_store_evicting(t) ==
    /\ tasks[t].pc = "store"
    /\ \/ /\ ev_log' = store_space_event(ev_log, The(tasks[t].event))
          /\ tasks' = [tasks EXCEPT ![t].pc = "snapshot"]
          /\ chans' = chans
          /\ subscribers' = subscribers
       \/ /\ lim.faults
          /\ ev_log' = ev_log
          /\ tasks' = [tasks EXCEPT ![t] = Done(tasks[t], "StorageError")]
          /\ chans' = DropOwnReceiver(tasks[t])
          /\ subscribers' = IF tasks[t].session = None THEN subscribers
                            ELSE Remove(subscribers, The(tasks[t].session).key)
    /\ UNCHANGED <<acall_log, msg_log, sessions, timites, abilities,
                   upd_counter, msg_counter, call_ability_cnt, id_cnt, boot, lim, rocks, stream>>

\* self.storage.store_space_event(&event)?  It succeeds, or the publish
\* returns the error (and with it every caller up to the handler).
publish_store(t) ==
    /\ tasks[t].pc = "store"
    /\ \/ /\ ev_log' = store_space_event(ev_log, The(tasks[t].event))
          /\ tasks' = [tasks EXCEPT ![t].pc = "snapshot"]
          /\ chans' = chans
       \/ /\ lim.faults
          /\ ev_log' = ev_log
          /\ tasks' = [tasks EXCEPT ![t] = Done(tasks[t], "StorageError")]
          /\ chans' = DropOwnReceiver(tasks[t])
    /\ UNCHANGED <<acall_log, msg_log, sessions, timites, abilities,
                   upd_counter, msg_counter, call_ability_cnt, id_cnt,
                   subscribers, boot, lim, rocks, stream>>

\* A fan-out that iterates over the registry under the read guard, which it
\* keeps while it sends.
publish_snapshot_iterating_guard(t) ==
    /\ tasks[t].pc = "snapshot"
    /\ can_read(t)
    /\ tasks' = [tasks EXCEPT ![t] =
           [read_guard(tasks[t]) EXCEPT !.pc = "send", !.todo = Values(subscribers),
                                        !.disconnected = <<>>]]
    /\ UNCHANGED <<storeVars, upd_counter, msg_counter, call_ability_cnt,
                   id_cnt, subscribers, chans, boot, lim, rocks, stream>>

\* broadcast_event: let snapshot = self.subscriber_snapshot(); the entries
\* are cloned under the read guard, which is dropped when the function
\* returns.
publish_snapshot(t) ==
    /\ tasks[t].pc = "snapshot"
    /\ can_read(t)
    /\ tasks' = [tasks EXCEPT ![t] =
           drop_guard([read_guard(tasks[t]) EXCEPT
                           !.pc = "send", !.todo = Values(subscribers),
                           !.disconnected = <<>>])]
    /\ UNCHANGED <<storeVars, upd_counter, msg_counter, call_ability_cnt,
                   id_cnt, subscribers, chans, boot, lim, rocks, stream>>

\* broadcast_event: one turn of the loop over the snapshot.  The send waits
\* while the queue is full.
skipped(task, sub) ==
    /\ task.skip_sender # None
    /\ ~sub.receive_own_messages
    /\ sub.session.timite_id \in task.skip_sender

publish_send(t) ==
    /\ tasks[t].pc = "send"
    /\ \E sub \in tasks[t].todo :
           LET task == tasks[t]
               rest == task.todo \ {sub}
           IN  \/ /\ skipped(task, sub)
                  /\ tasks' = [tasks EXCEPT ![t].todo = rest]
                  /\ chans' = chans
               \/ /\ ~skipped(task, sub)
                  /\ is_closed(sub.chan)
                  /\ tasks' = [tasks EXCEPT ![t].todo = rest,
                                   ![t].disconnected = Append(@, sub)]
                  /\ chans' = chans
               \/ /\ ~skipped(task, sub)
                  /\ ~is_closed(sub.chan)
                  /\ queue_len(sub.chan) < BUFFER_SIZE
                  /\ tasks' = [tasks EXCEPT ![t].todo = rest]
                  /\ chans' = [chans EXCEPT ![sub.chan].sent =
                                   Append(@, The(task.event))]
    /\ UNCHANGED <<storeVars, upd_counter, msg_counter, call_ability_cnt,
                   id_cnt, subscribers, boot, lim, rocks, stream>>

\* prune_disconnected(disconnected) and publish_disconnected_batch(removed):
\* the prune takes the write guard unless it has nothing to remove and drops
\* it when it returns; the next disconnected event begins, or the handler
\* returns.  A
\* publish_timite_disconnected drops the result of its own prune.  While the
\* batch runs, origin is the event of the publish that called it.
publish_prune(t) ==
    /\ tasks[t].pc = "send"
    /\ tasks[t].todo = {}
    /\ tasks[t].disconnected = <<>> \/ can_write(t)
    /\ LET locked == IF tasks[t].disconnected = <<>> THEN tasks[t]
                     ELSE write_guard(tasks[t])
           task == drop_guard(locked)
           pruned == prune_disconnected(subscribers, task.disconnected)
           own_dropped == /\ task.data # None
                          /\ The(task.data).kind = "EventTimiteDisconnected"
           batch == IF own_dropped THEN task.batch ELSE pruned.removed_timites
       IN  /\ subscribers' = pruned.guard
           /\ tasks' = [tasks EXCEPT ![t] =
                  IF batch = <<>> THEN Done(task, "Ok")
                  ELSE [BeginPublish(task, timite_disconnected_data(Head(batch)), None)
                           EXCEPT !.batch = Tail(batch),
                                  !.origin = IF own_dropped THEN task.origin
                                             ELSE task.event]]
    /\ UNCHANGED <<storeVars, upd_counter, msg_counter, call_ability_cnt,
                   id_cnt, chans, boot, lim, rocks, stream>>

\* The handler's result goes back to the client.
return_task(t) ==
    /\ tasks[t].pc = "done"
    /\ tasks' = [tasks EXCEPT ![t] = IdleTask]
    /\ UNCHANGED <<storeVars, upd_counter, msg_counter, call_ability_cnt,
                   id_cnt, subscribers, chans, boot, lim, rocks, stream>>

(***************************************************************************)
(* The client side of a channel: the stream takes an event, or is dropped. *)
(* A receiver is in the client's hands once subscribe has returned it.     *)
(***************************************************************************)
receiver_returned(c) ==
    \A t \in Tasks : c \in tasks[t].chan => tasks[t].pc = "done" /\ tasks[t].res = "Ok"

drop_receiver(c) ==
    /\ c \in DOMAIN chans
    /\ ~chans[c].rx_dropped
    /\ receiver_returned(c)
    /\ chans' = [chans EXCEPT ![c].rx_dropped = TRUE]
    /\ UNCHANGED <<storeVars, upd_counter, msg_counter, call_ability_cnt,
                   id_cnt, subscribers, tasks, boot, lim, rocks, stream>>

\* The client's stream takes the oldest event of the queue.
recv_event(c) ==
    /\ c \in DOMAIN chans
    /\ ~chans[c].rx_dropped
    /\ receiver_returned(c)
    /\ queue_len(c) > 0
    /\ chans' = [chans EXCEPT ![c].taken = @ + 1]
    /\ UNCHANGED <<storeVars, upd_counter, msg_counter, call_ability_cnt,
                   id_cnt, subscribers, tasks, boot, lim, rocks, stream>>

(***************************************************************************)
(* The process stops and starts again over the same store: TimSpace::new,  *)
(* TimMessage::new and TimAbility::new seed the counters.                  *)
(***************************************************************************)
restart ==
    /\ boot.restarts < lim.restarts
    /\ upd_counter' = fetch_max_event_id(ev_log)
    /\ msg_counter' = fetch_max_message_id(msg_log)
    /\ call_ability_cnt' = fetch_max_call_ability_id(acall_log)
    /\ id_cnt' = fetch_max_timite_id(timites)
    /\ subscribers' = EmptyMap
    /\ chans' = <<>>
    /\ tasks' = [t \in Tasks |-> IdleTask]
    /\ boot' = [restarts |-> boot.restarts + 1, had_events |-> DOMAIN ev_log # {},
                max_event_id |-> fetch_max_event_id(ev_log)]
    /\ UNCHANGED <<storeVars, lim, rocks, stream>>

(***************************************************************************)
(* Identity and sessions.  generate_session_key draws 32 random bytes: the *)
(* model takes the key to be one that no persisted session has.            *)
(***************************************************************************)
KeySpace ==
    DOMAIN InitSessions
        \cup {"k" \o ToString(Cardinality(DOMAIN InitSessions) + i) :
                  i \in 1..SessionMaxKeys}
generate_session_key == KeySpace \ DOMAIN sessions

\* A session that is not bound to the participant it is created for.
session_create_unbound(timite, key) == [key |-> key, timite_id |-> 0]

\* TimSession::create, the Session it builds (created_at and client_info
\* are left out).
session_create(timite, key) == [key |-> key, timite_id |-> timite.id]

\* TimApi::trusted_register: TimTimite::create, then TimSession::create.
trusted_register(t, nick, has_client_info) ==
    /\ Free(t)
    /\ id_cnt < fetch_max_timite_id(InitTimites) + lim.timites
    /\ LET id == id_cnt + 1
           timite == [id |-> id, nick |-> nick]
           started == [IdleTask EXCEPT !.op = "trusted_register",
                           !.arg = Some([nick |-> nick,
                                         has_client_info |-> has_client_info])]
       IN  /\ id_cnt' = id
           /\ \/ /\ lim.faults
                 /\ UNCHANGED <<timites, sessions>>
                 /\ tasks' = [tasks EXCEPT ![t] = Done(started, "StorageError")]
              \/ /\ ~has_client_info
                 /\ timites' = store_timite(timites, timite)
                 /\ UNCHANGED sessions
                 /\ tasks' = [tasks EXCEPT ![t] = Done(started, "InvalidArgError")]
              \/ /\ has_client_info
                 /\ timites' = store_timite(timites, timite)
                 /\ \E key \in generate_session_key :
                        LET session == session_create(timite, key)
                        IN  \/ /\ sessions' = store_session(sessions, session)
                               /\ tasks' = [tasks EXCEPT ![t] = Done(
                                      [started EXCEPT !.ret =
                                          Some([session |-> Some(session)])], "Ok")]
                            \/ /\ lim.faults
                               /\ UNCHANGED sessions
                               /\ tasks' = [tasks EXCEPT ![t] =
                                      Done(started, "StorageError")]
    /\ UNCHANGED <<ev_log, acall_log, msg_log, abilities, upd_counter, msg_counter,
                   call_ability_cnt, subscribers, chans, boot, lim, rocks, stream>>

\* trusted_connect without the lookup of the participant.
trusted_connect_unchecked(t, timite, has_client_info) ==
    /\ Free(t)
    /\ LET started == [IdleTask EXCEPT !.op = "trusted_connect",
                                       !.arg = Some([timite |-> timite])]
       IN  \/ /\ timite = None \/ ~has_client_info
              /\ UNCHANGED sessions
              /\ tasks' = [tasks EXCEPT ![t] = Done(started, "InvalidArgError")]
           \/ /\ timite # None
              /\ has_client_info
              /\ \E key \in generate_session_key :
                     LET session == session_create(The(timite), key)
                         res == [session |-> Some(session), error |-> "Unspecified"]
                     IN  /\ sessions' = store_session(sessions, session)
                         /\ tasks' = [tasks EXCEPT ![t] =
                                Done([started EXCEPT !.ret = Some(res)], "Ok")]
    /\ UNCHANGED <<ev_log, acall_log, msg_log, timites, abilities, upd_counter,
                   msg_counter, call_ability_cnt, id_cnt, subscribers, chans, boot,
                   lim, rocks, stream>>

\* TimApi::trusted_connect.  timite is the Option<Timite> of the request.  A
\* failed read of the participant and a failed store of the session both
\* return the storage error and leave the store as it was.
trusted_connect(t, timite, has_client_info) ==
    /\ Free(t)
    /\ LET started == [IdleTask EXCEPT !.op = "trusted_connect",
                                       !.arg = Some([timite |-> timite])]
           stored_timite == find_timite(timites, The(timite).id)
           not_found == [session |-> None, error |-> "TimiteNotFound"]
       IN  \/ /\ timite = None
              /\ UNCHANGED sessions
              /\ tasks' = [tasks EXCEPT ![t] = Done(started, "InvalidArgError")]
           \/ /\ timite # None
              /\ lim.faults
              /\ UNCHANGED sessions
              /\ tasks' = [tasks EXCEPT ![t] = Done(started, "StorageError")]
           \/ /\ timite # None
              /\ stored_timite = None
              /\ UNCHANGED sessions
              /\ tasks' = [tasks EXCEPT ![t] =
                     Done([started EXCEPT !.ret = Some(not_found)], "Ok")]
           \/ /\ timite # None
              /\ stored_timite # None
              /\ ~has_client_info
              /\ UNCHANGED sessions
              /\ tasks' = [tasks EXCEPT ![t] = Done(started, "InvalidArgError")]
           \/ /\ timite # None
              /\ stored_timite # None
              /\ has_client_info
              /\ \E key \in generate_session_key :
                     LET session == session_create(The(timite), key)
                         res == [session |-> Some(session), error |-> "Unspecified"]
                     IN  /\ sessions' = store_session(sessions, session)
                         /\ tasks' = [tasks EXCEPT ![t] =
                                Done([started EXCEPT !.ret = Some(res)], "Ok")]
    /\ UNCHANGED <<ev_log, acall_log, msg_log, timites, abilities, upd_counter,
                   msg_counter, call_ability_cnt, id_cnt, subscribers, chans, boot,
                   lim, rocks, stream>>

\* TimApi::declare_abilities and TimApi::list_abilities.
\* The handler adding the declared abilities to those already stored.
declare_abilities_merging(t, k, declared) ==
    /\ Free(t)
    /\ LET session == sessions[k]
           started == [Started("declare_abilities", session) EXCEPT
                           !.arg = Some(declared)]
           stored == IF session.timite_id \in DOMAIN abilities
                     THEN abilities[session.timite_id] ELSE {}
       IN  \/ /\ abilities' = store_timite_abilities(abilities, session.timite_id,
                                                      stored \cup declared)
              /\ tasks' = [tasks EXCEPT ![t] = Done(started, "Ok")]
           \/ /\ lim.faults
              /\ abilities' = abilities
              /\ tasks' = [tasks EXCEPT ![t] = Done(started, "StorageError")]
    /\ UNCHANGED <<ev_log, acall_log, msg_log, sessions, timites, upd_counter,
                   msg_counter, call_ability_cnt, id_cnt, subscribers, chans, boot,
                   lim, rocks, stream>>

declare_abilities(t, k, declared) ==
    /\ Free(t)
    /\ LET session == sessions[k]
           started == [Started("declare_abilities", session) EXCEPT
                           !.arg = Some(declared)]
       IN  \/ /\ abilities' = store_timite_abilities(abilities, session.timite_id,
                                                      declared)
              /\ tasks' = [tasks EXCEPT ![t] = Done(started, "Ok")]
           \/ /\ lim.faults
              /\ abilities' = abilities
              /\ tasks' = [tasks EXCEPT ![t] = Done(started, "StorageError")]
    /\ UNCHANGED <<ev_log, acall_log, msg_log, sessions, timites, upd_counter,
                   msg_counter, call_ability_cnt, id_cnt, subscribers, chans, boot,
                   lim, rocks, stream>>

list_abilities(t, k) ==
    /\ Free(t)
    /\ LET started == Started("list_abilities", sessions[k])
       IN  \/ tasks' = [tasks EXCEPT ![t] =
                  Done([started EXCEPT !.ret = Some(abilities)], "Ok")]
           \/ /\ lim.faults
              /\ tasks' = [tasks EXCEPT ![t] = Done(started, "StorageError")]
    /\ UNCHANGED <<storeVars, upd_counter, msg_counter, call_ability_cnt, id_cnt,
                   subscribers, chans, boot, lim, rocks, stream>>

(***************************************************************************)
(* The gRPC service behind the session middleware.  token is the value of  *)
(* the tim-session-key header, if the request has one.  The middleware     *)
(* attaches the session the token resolves to; every handler but the two   *)
(* trusted ones begins with require_session.                               *)
(***************************************************************************)
\* A lookup that falls back to a persisted session when the token is unknown.
extract_session_lenient(token) ==
    IF token # None /\ find_session(sessions, The(token)) # None
    THEN find_session(sessions, The(token))
    ELSE Some(sessions[CHOOSE k \in DOMAIN sessions : TRUE])

extract_session(token) ==
    IF token = None THEN None ELSE find_session(sessions, The(token))

\* require_session fails: Status::unauthenticated("No session").
unauthenticated(t, op, token) ==
    /\ Free(t)
    /\ tasks' = [tasks EXCEPT ![t] =
           Done([IdleTask EXCEPT !.op = op, !.arg = Some([token |-> token])],
                "Unauthenticated")]
    /\ UNCHANGED <<storeVars, upd_counter, msg_counter, call_ability_cnt, id_cnt,
                   subscribers, chans, boot, lim, rocks, stream>>

grpc_declare_abilities(t, token, declared) ==
    IF extract_session(token) # None
    THEN declare_abilities(t, The(extract_session(token)).key, declared)
    ELSE unauthenticated(t, "declare_abilities", token)

grpc_list_abilities(t, token) ==
    IF extract_session(token) # None
    THEN list_abilities(t, The(extract_session(token)).key)
    ELSE unauthenticated(t, "list_abilities", token)

grpc_send_message(t, token, content) ==
    IF extract_session(token) # None
    THEN send_message(t, The(extract_session(token)).key, content)
    ELSE unauthenticated(t, "send_message", token)

subscribe_to_space(t, token, receive_own_messages) ==
    IF extract_session(token) # None
    THEN subscribe(t, The(extract_session(token)).key, receive_own_messages)
    ELSE unauthenticated(t, "subscribe", token)

grpc_get_timeline(t, token, offset, size) ==
    IF extract_session(token) # None
    THEN get_timeline(t, The(extract_session(token)).key, offset, size)
    ELSE unauthenticated(t, "get_timeline", token)

grpc_send_call_ability(t, token, target, client_sender_id, client_call_ability_id) ==
    IF extract_session(token) # None
    THEN send_call_ability(t, The(extract_session(token)).key, target,
                           client_sender_id, client_call_ability_id)
    ELSE unauthenticated(t, "send_call_ability", token)

grpc_send_call_ability_outcome(t, token, call_ability_id) ==
    IF extract_session(token) # None
    THEN send_call_ability_outcome(t, The(extract_session(token)).key,
        call_ability_id)
    ELSE unauthenticated(t, "send_call_ability_outcome", token)

(***************************************************************************)
(* The steps every publish goes through, and the handler's return.         *)
(***************************************************************************)
Publish ==
    \/ \E t \in Tasks : publish_alloc(t)
    \/ \E t \in Tasks : publish_store(t)
    \/ \E t \in Tasks : publish_snapshot(t)
    \/ \E t \in Tasks : publish_send(t)
    \/ \E t \in Tasks : publish_prune(t)
    \/ \E t \in Tasks : return_task(t)

(***************************************************************************)
(* Spec: presence.  One handler at a time; the three sessions subscribe     *)
(* (k1 with receive_own_messages off, k2 and k3 with it on), their streams *)
(* are dropped, k1 and k3 send messages, the cleanup task runs.            *)
(***************************************************************************)
Init ==
    /\ InitState
    /\ lim = [tasks |-> 1, events |-> MaxEvents, subscribes |-> MaxSubscribes,
              messages |-> MaxMessages, calls |-> 0, restarts |-> 0, faults |-> TRUE]

Next ==
    \/ \E t \in Tasks, k \in DOMAIN sessions : subscribe(t, k, k # "k1")
    \/ \E t \in Tasks, k \in {"k1", "k3"} : send_message(t, k, "text")
    \/ \E t \in Tasks : cleanup_disconnected(t)
    \/ \E c \in DOMAIN chans : drop_receiver(c)
    \/ Publish

Spec == Init /\ [][Next]_vars

(***************************************************************************)
(* SpecAbility: ability calls and their outcomes.  One handler at a time;  *)
(* sessions k1 (participant 1) and k3 (participant 2) subscribe, send      *)
(* messages, call abilities of either participant and submit outcomes.     *)
(***************************************************************************)
ClientSenderIds == {0, 2}

InitAbility ==
    /\ InitState
    /\ lim = [tasks |-> 1, events |-> AbilityMaxEvents, subscribes |-> 1,
              messages |-> 1, calls |-> AbilityMaxCalls, restarts |-> 0, faults |-> TRUE]

NextAbility ==
    \/ \E t \in Tasks, k \in {"k1", "k3"}, receive_own_messages \in BOOLEAN :
           subscribe(t, k, receive_own_messages)
    \/ \E t \in Tasks, k \in {"k1", "k3"} : send_message(t, k, "text")
    \/ \E t \in Tasks, k \in {"k1", "k3"}, target \in DOMAIN timites,
          client_sender_id \in ClientSenderIds :
           send_call_ability(t, k, target, client_sender_id, None)
    \/ \E t \in Tasks, k \in {"k1", "k3"}, id \in 1..AbilityMaxCalls :
           send_call_ability_outcome(t, k, id)
    \/ Publish

SpecAbility == InitAbility /\ [][NextAbility]_vars

(***************************************************************************)
(* Call ids: calls whose request carries no call_ability_id or one of its  *)
(* own, two handlers at a time, storage that may fail, and restarts, which *)
(* reseed call_ability_cnt from the persisted calls.                       *)
(***************************************************************************)
ClientCallIds == {None, Some(1)}

InitCalls ==
    /\ InitState
    /\ lim = [tasks |-> CallsTasks, events |-> CallsMaxEvents, subscribes |-> 1,
              messages |-> 0, calls |-> CallsMaxCalls, restarts |-> MaxRestarts,
              faults |-> TRUE]

NextCalls ==
    \/ \E t \in Tasks : subscribe(t, "k3", TRUE)
    \/ \E t \in Tasks, client_call_ability_id \in ClientCallIds :
           send_call_ability(t, "k1", 2, 0, client_call_ability_id)
    \/ restart
    \/ Publish

SpecCalls == InitCalls /\ [][NextCalls]_vars

(***************************************************************************)
(* SpecRace: two handlers in flight.  Session k1 sends messages while      *)
(* session k3 subscribes and its stream is dropped.                        *)
(***************************************************************************)
InitRace ==
    /\ InitState
    /\ lim = [tasks |-> NumTasks, events |-> RaceMaxEvents,
              subscribes |-> RaceMaxSubscribes, messages |-> RaceMaxMessages,
              calls |-> 0, restarts |-> 0, faults |-> TRUE]

NextRace ==
    \/ \E t \in Tasks : subscribe(t, "k3", TRUE)
    \/ \E t \in Tasks : send_message(t, "k1", "text")
    \/ \E c \in DOMAIN chans : drop_receiver(c)
    \/ Publish

SpecRace == InitRace /\ [][NextRace]_vars

(***************************************************************************)
(* SpecRestart: the process is restarted over its store.  One handler at a *)
(* time; k3 subscribes, k1 sends messages.                                 *)
(***************************************************************************)
InitRestart ==
    /\ InitState
    /\ lim = [tasks |-> 1, events |-> RestartMaxEvents, subscribes |-> 1,
              messages |-> RestartMaxEvents, calls |-> 0, restarts |-> MaxRestarts,
              faults |-> TRUE]

NextRestart ==
    \/ \E t \in Tasks : subscribe(t, "k3", TRUE)
    \/ \E t \in Tasks : send_message(t, "k1", "text")
    \/ restart
    \/ Publish

SpecRestart == InitRestart /\ [][NextRestart]_vars

(***************************************************************************)
(* SpecFull: a slow subscriber.  One handler at a time; k3 subscribes and  *)
(* k1 sends more messages than a queue holds, while the stream of k3 takes *)
(* events at its own pace or is dropped.  The store does not fail.         *)
(***************************************************************************)
InitFull ==
    /\ InitState
    /\ lim = [tasks |-> 1, events |-> BUFFER_SIZE + FullMaxOverflow, subscribes |-> 1,
              messages |-> BUFFER_SIZE + FullMaxOverflow, calls |-> 0, restarts |-> 0, 
              faults |-> FALSE]

NextFull ==
    \/ \E t \in Tasks : subscribe(t, "k3", TRUE)
    \/ \E t \in Tasks : send_message(t, "k1", "text")
    \/ \E c \in DOMAIN chans : recv_event(c)
    \/ \E c \in DOMAIN chans : drop_receiver(c)
    \/ Publish

SpecFull == InitFull /\ [][NextFull]_vars

(***************************************************************************)
(* SpecTimeline: reads of the timeline.  One handler at a time; k3         *)
(* subscribes, k1 sends messages (stores may fail), and k3 reads the       *)
(* timeline with every offset and size up to TimelineMaxArg.               *)
(***************************************************************************)
InitTimeline ==
    /\ InitState
    /\ lim = [tasks |-> 1, events |-> TimelineMaxEvents, subscribes |-> 1,
              messages |-> TimelineMaxEvents, calls |-> 0, restarts |-> 0,
              faults |-> TRUE]

NextTimeline ==
    \/ \E t \in Tasks : subscribe(t, "k3", TRUE)
    \/ \E t \in Tasks : send_message(t, "k1", "text")
    \/ \E t \in Tasks, offset \in 0..TimelineMaxArg, size \in 0..TimelineMaxArg :
           get_timeline(t, "k3", offset, size)
    \/ Publish

SpecTimeline == InitTimeline /\ [][NextTimeline]_vars

(***************************************************************************)
(* SpecSession: identity and authentication.  One handler at a time.       *)
(* Participants register and connect (with known and unknown ids, with and *)
(* without client_info), and every other method is called with no token or *)
(* with a token that no persisted session has.                             *)
(***************************************************************************)
InvalidTokens == {None, Some("bogus")}
Nicks == {"gamma", ""}
ConnectTimites ==
    {None} \cup {Some([id |-> i, nick |-> "any"]) :
                    i \in 1..(Cardinality(DOMAIN InitTimites) + SessionMaxTimites + 1)}

InitSession ==
    /\ InitState
    /\ lim = [tasks |-> 1, events |-> 1, subscribes |-> 1, messages |-> 1,
              calls |-> 1, restarts |-> 0, faults |-> TRUE,
              timites |-> SessionMaxTimites]

NextSession ==
    \/ \E t \in Tasks, nick \in Nicks, has_client_info \in BOOLEAN :
           trusted_register(t, nick, has_client_info)
    \/ \E t \in Tasks, timite \in ConnectTimites, has_client_info \in BOOLEAN :
           trusted_connect(t, timite, has_client_info)
    \/ \E t \in Tasks, token \in InvalidTokens :
           grpc_declare_abilities(t, token, {"echo"})
    \/ \E t \in Tasks, token \in InvalidTokens : grpc_list_abilities(t, token)
    \/ \E t \in Tasks, token \in InvalidTokens : grpc_send_message(t, token, "text")
    \/ \E t \in Tasks, token \in InvalidTokens : subscribe_to_space(t, token, TRUE)
    \/ \E t \in Tasks, token \in InvalidTokens : grpc_get_timeline(t, token, 0, 1)
    \/ \E t \in Tasks, token \in InvalidTokens :
           grpc_send_call_ability(t, token, 1, 0, None)
    \/ \E t \in Tasks, token \in InvalidTokens :
           grpc_send_call_ability_outcome(t, token, 1)
    \/ \E t \in Tasks : return_task(t)

SpecSession == InitSession /\ [][NextSession]_vars

(***************************************************************************)
(* SpecDeclare: ability declarations.  One handler at a time; the sessions *)
(* of both participants (k1 and k2 are sessions of the same one) declare   *)
(* any set of abilities, any session lists them, and the server restarts.  *)
(***************************************************************************)
AbilityNames == {"echo", "ping"}

InitDeclare ==
    /\ InitState
    /\ lim = [tasks |-> 1, events |-> 0, subscribes |-> 0, messages |-> 0,
              calls |-> 0, restarts |-> MaxRestarts, faults |-> TRUE]

NextDeclare ==
    \/ \E t \in Tasks, k \in DOMAIN sessions, declared \in SUBSET AbilityNames :
           declare_abilities(t, k, declared)
    \/ \E t \in Tasks, k \in DOMAIN sessions : list_abilities(t, k)
    \/ \E t \in Tasks : return_task(t)
    \/ restart

SpecDeclare == InitDeclare /\ [][NextDeclare]_vars

(***************************************************************************)
(* SpecIds: the three id counters of the services.  One handler at a time; *)
(* k1 sends messages and calls an ability, a participant registers, k3     *)
(* subscribes, storage may fail, and the server restarts, which reseeds    *)
(* every counter from the persisted records.                               *)
(***************************************************************************)
InitIds ==
    /\ InitState
    /\ lim = [tasks |-> 1, events |-> IdsMaxEvents, subscribes |-> 1,
              messages |-> IdsMaxIds, calls |-> IdsMaxIds, restarts |-> MaxRestarts,
              faults |-> TRUE, timites |-> IdsMaxIds]

NextIds ==
    \/ \E t \in Tasks : subscribe(t, "k3", TRUE)
    \/ \E t \in Tasks : send_message(t, "k1", "text")
    \/ \E t \in Tasks : send_call_ability(t, "k1", 2, 0, None)
    \/ \E t \in Tasks : trusted_register(t, "gamma", TRUE)
    \/ restart
    \/ Publish

SpecIds == InitIds /\ [][NextIds]_vars

(***************************************************************************)
(* SpecContent: message contents.  One handler at a time; k3 subscribes    *)
(* and k1 sends messages with text, with no content and with blanks only.  *)
(***************************************************************************)
BlankContents == {"", "  "}
Contents == {"text"} \cup BlankContents

InitContent ==
    /\ InitState
    /\ lim = [tasks |-> 1, events |-> ContentMaxMessages + 1, subscribes |-> 1,
              messages |-> ContentMaxMessages, calls |-> 0, restarts |-> 0,
              faults |-> TRUE]

NextContent ==
    \/ \E t \in Tasks : subscribe(t, "k3", TRUE)
    \/ \E t \in Tasks, content \in Contents : send_message(t, "k1", content)
    \/ Publish

SpecContent == InitContent /\ [][NextContent]_vars

(***************************************************************************)
(* SpecResubscribe: a session that subscribes again while a publish is in  *)
(* flight.  Two handlers at a time; k1 subscribes, its receiver is         *)
(* dropped, k1 subscribes again, and k3 sends a message.  Storage does not *)
(* fail.                                                                   *)
(***************************************************************************)
InitResubscribe ==
    /\ InitState
    /\ lim = [tasks |-> NumTasks, events |-> ResubMaxEvents,
              subscribes |-> ResubMaxSubscribes, messages |-> 1, calls |-> 0,
              restarts |-> 0, faults |-> FALSE]

NextResubscribe ==
    \/ \E t \in Tasks : subscribe(t, "k1", FALSE)
    \/ \E t \in Tasks : send_message(t, "k3", "text")
    \/ \E c \in DOMAIN chans : drop_receiver(c)
    \/ Publish

SpecResubscribe == InitResubscribe /\ [][NextResubscribe]_vars

(***************************************************************************)
(* SpecCleanup: the periodic cleanup next to a handler.  Two tasks at a     *)
(* time; k1 and k3 subscribe (receive_own_messages off), receivers are     *)
(* dropped, k3 sends a message, and the cleanup task runs.  Storage does   *)
(* not fail.                                                               *)
(***************************************************************************)
InitCleanup ==
    /\ InitState
    /\ lim = [tasks |-> NumTasks, events |-> CleanupMaxEvents,
              subscribes |-> CleanupMaxSubscribes, messages |-> 1, calls |-> 0,
              restarts |-> 0, faults |-> FALSE]

NextCleanup ==
    \/ \E t \in Tasks, k \in {"k1", "k3"} : subscribe(t, k, FALSE)
    \/ \E t \in Tasks : send_message(t, "k3", "text")
    \/ \E t \in Tasks : cleanup_disconnected(t)
    \/ \E c \in DOMAIN chans : drop_receiver(c)
    \/ Publish

SpecCleanup == InitCleanup /\ [][NextCleanup]_vars

(***************************************************************************)
(* RocksDbStorage::register, one step per access to the database or to the *)
(* counter.  Threads call it at the same time (the trait is Send + Sync    *)
(* and register takes &self).                                              *)
(***************************************************************************)
FreeThread(th) ==
    /\ rocks.calls[th].pc = "idle"
    /\ \A u \in Threads : u < th => rocks.calls[u].pc # "idle"

FailedCall(call) == [call EXCEPT !.pc = "done", !.res = "StorageError"]

\* The lookup of the nick in the secondary index: an existing id is returned.
register(th, nick) ==
    /\ FreeThread(th)
    /\ LET call == [IdleCall EXCEPT !.nick = nick]
           existing_id == get_value(rocks.db, timite_nick_key(nick))
       IN  \/ rocks' = IF existing_id # None
                       THEN [rocks EXCEPT
                                !.calls[th] = [call EXCEPT !.pc = "done", !.res = "Ok",
                                                  !.id = unwrap_or(existing_id, 0)],
                                !.returned = @ \cup
                                    {[nick |-> nick, id |-> unwrap_or(existing_id, 0)]}]
                       ELSE [rocks EXCEPT !.calls[th] = [call EXCEPT !.pc = "next_id"]]
           \/ /\ lim.faults
              /\ rocks' = [rocks EXCEPT !.calls[th] = FailedCall(call)]
    /\ UNCHANGED <<storeVars, memVars, boot, lim, stream>>

\* next_id: let id = self.id_counter.fetch_add(1, SeqCst);
next_id_fetch_add(th) ==
    /\ rocks.calls[th].pc = "next_id"
    /\ rocks.id_counter < RocksMaxIds
    /\ rocks' = [rocks EXCEPT !.calls[th].pc = "persist",
                              !.calls[th].id = rocks.id_counter,
                              !.id_counter = @ + 1]
    /\ UNCHANGED <<storeVars, memVars, boot, lim, stream>>

\* next_id: put_value(cnt:t:id, id + 1)?; Ok(id)
next_id_persist(th) ==
    /\ rocks.calls[th].pc = "persist"
    /\ LET id == rocks.calls[th].id
       IN  \/ rocks' = [rocks EXCEPT
                           !.db = put_value(@, timite_counter_key, id + 1),
                           !.calls[th].pc = "put_id",
                           !.handed = Append(@, id)]
           \/ /\ lim.faults
              /\ rocks' = [rocks EXCEPT !.calls[th] = FailedCall(@)]
    /\ UNCHANGED <<storeVars, memVars, boot, lim, stream>>

\* register: the record under the primary key.
register_put_id(th) ==
    /\ rocks.calls[th].pc = "put_id"
    /\ LET call == rocks.calls[th]
           data == [id |-> call.id, nick |-> call.nick]
       IN  \/ rocks' = [rocks EXCEPT
                           !.db = put_value(@, timite_id_key(call.id), data),
                           !.calls[th].pc = "put_nick"]
           \/ /\ lim.faults
              /\ rocks' = [rocks EXCEPT !.calls[th] = FailedCall(@)]
    /\ UNCHANGED <<storeVars, memVars, boot, lim, stream>>

\* register: the id under the nick, and Ok(id).
register_put_nick(th) ==
    /\ rocks.calls[th].pc = "put_nick"
    /\ LET call == rocks.calls[th]
       IN  \/ rocks' = [rocks EXCEPT
                           !.db = put_value(@, timite_nick_key(call.nick), call.id),
                           !.calls[th].pc = "done",
                           !.calls[th].res = "Ok",
                           !.returned = @ \cup {[nick |-> call.nick, id |-> call.id]}]
           \/ /\ lim.faults
              /\ rocks' = [rocks EXCEPT !.calls[th] = FailedCall(@)]
    /\ UNCHANGED <<storeVars, memVars, boot, lim, stream>>

register_return(th) ==
    /\ rocks.calls[th].pc = "done"
    /\ rocks' = [rocks EXCEPT !.calls[th] = IdleCall]
    /\ UNCHANGED <<storeVars, memVars, boot, lim, stream>>

\* The process stops and RocksDbStorage::new opens the database again.
reopen ==
    /\ boot.restarts < lim.restarts
    /\ rocks' = [RocksDbStorage_new(rocks.db) EXCEPT !.handed = rocks.handed,
                                                    !.returned = rocks.returned]
    /\ boot' = [boot EXCEPT !.restarts = @ + 1]
    /\ UNCHANGED <<storeVars, memVars, lim, stream>>

(***************************************************************************)
(* SpecRocks: threads register the nicks alice and bob over an empty       *)
(* database, puts may fail, and the database is opened again.              *)
(***************************************************************************)
RocksNicks == {"alice", "bob"}

InitRocks ==
    /\ InitState
    /\ lim = [tasks |-> 0, events |-> 0, subscribes |-> 0, messages |-> 0,
              calls |-> 0, restarts |-> MaxRestarts, faults |-> TRUE]

NextRocks ==
    \/ \E th \in Threads, nick \in RocksNicks : register(th, nick)
    \/ \E th \in Threads : next_id_fetch_add(th)
    \/ \E th \in Threads : next_id_persist(th)
    \/ \E th \in Threads : register_put_id(th)
    \/ \E th \in Threads : register_put_nick(th)
    \/ \E th \in Threads : register_return(th)
    \/ reopen

SpecRocks == InitRocks /\ [][NextRocks]_vars

(***************************************************************************)
(* TimClient::timeline_stream.  The stream is created with offset 0; each  *)
(* poll of it is one GetTimeline(offset, page_size) call and the update of *)
(* the State from its result.  The stream reads a log that is at rest.     *)
(***************************************************************************)
timeline_stream(page_size) ==
    /\ stream.pc = "none"
    /\ \A t \in Tasks : tasks[t].pc = "idle"
    /\ stream' = [NoStream EXCEPT !.pc = "polling", !.page_size = page_size]
    /\ UNCHANGED <<storeVars, memVars, boot, lim, rocks>>

timeline_stream_poll ==
    /\ stream.pc = "polling"
    /\ LET events == timeline(ev_log, stream.offset, stream.page_size)
           len == Len(events)
       IN  \/ stream' =
                 IF stream.finished \/ stream.page_size = 0
                     THEN [stream EXCEPT !.pc = "ended"]
                 ELSE IF events = <<>>
                     THEN [stream EXCEPT !.pc = "ended", !.finished = TRUE]
                 ELSE [stream EXCEPT !.offset = @ + len,
                                     !.finished = len < stream.page_size,
                                     !.yielded = @ \o events]
           \/ /\ lim.faults
              /\ ~stream.finished
              /\ stream.page_size # 0
              /\ stream' = [stream EXCEPT !.finished = TRUE, !.failed = TRUE]
    /\ UNCHANGED <<storeVars, memVars, boot, lim, rocks>>

(***************************************************************************)
(* SpecStream: k3 subscribes and k1 sends messages, one handler at a time  *)
(* and with stores that may fail; once the handlers have returned an agent *)
(* reads the whole timeline through a timeline_stream of any page size.    *)
(***************************************************************************)
InitStream ==
    /\ InitState
    /\ lim = [tasks |-> 1, events |-> StreamMaxEvents, subscribes |-> 1,
              messages |-> StreamMaxEvents, calls |-> 0, restarts |-> 0,
              faults |-> TRUE]

NextStream ==
    \/ \E t \in Tasks : stream.pc = "none" /\ subscribe(t, "k3", TRUE)
    \/ \E t \in Tasks : stream.pc = "none" /\ send_message(t, "k1", "text")
    \/ Publish
    \/ \E page_size \in 0..StreamMaxPage : timeline_stream(page_size)
    \/ timeline_stream_poll

SpecStream == InitStream /\ [][NextStream]_vars

(***************************************************************************)
(* Vocabulary of the properties.                                           *)
(***************************************************************************)
Participants == DOMAIN InitTimites
Quiescent == \A t \in Tasks : tasks[t].pc \in {"idle", "done"}
EventIds == DOMAIN ev_log
Sent(c) == {chans[c].sent[i] : i \in 1..Len(chans[c].sent)}
SentIds(c) == {e.metadata.id : e \in Sent(c)}
EntriesOf(map, p) == {sub \in Values(map) : sub.timite.id = p}
LoggedOf(kind, p) ==
    {i \in EventIds : ev_log[i].data.kind = kind /\ ev_log[i].data.timite.id = p}

\* No id allocated in this run is missing from the log.
NoBurntId == \A i \in 0..(upd_counter - 1) : i \in EventIds

\* The participant an event originates from, for the receive_own rule.
Origin(e) ==
    IF e.data.kind = "EventNewMessage" THEN Some(e.data.message.sender_id)
    ELSE IF e.data.kind = "EventCallAbility" THEN Some(e.data.call_ability.sender_id)
    ELSE IF e.data.kind = "EventCallAbilityOutcome"
         THEN {acall_log[i].timite_id :
                  i \in {e.data.call_ability_outcome.call_ability_id} \cap DOMAIN acall_log}
    ELSE None

Filtered(e, sub) ==
    ~sub.receive_own_messages /\ sub.session.timite_id \in Origin(e)

(***************************************************************************)
(* C1.  Event ids increase with emission order (every id in the log or in  *)
(* flight is below the counter, and a channel holds them in ascending      *)
(* order when one handler runs at a time), and the ids present in the      *)
(* event log form a contiguous range, also after publishes whose store     *)
(* failed.  The code burns the id of a failed store.                       *)
(***************************************************************************)
C1_LogGapFree ==
    /\ \A i \in EventIds : i < upd_counter
    /\ \A i \in EventIds, j \in EventIds :
           \A x \in i..j : x \in EventIds

(***************************************************************************)
(* C2.  After a restart over a store that holds events, the first event    *)
(* published gets the id (maximum persisted id) + 1.  The code stamps the  *)
(* counter's previous value, which is the maximum itself.                  *)
(***************************************************************************)
C2_FirstIdAfterRestart ==
    (boot.restarts > 0 /\ boot.had_events /\ upd_counter = boot.max_event_id + 1)
        => \A t \in Tasks :
               tasks[t].event # None
                   => The(tasks[t].event).metadata.id = boot.max_event_id + 1

(***************************************************************************)
(* C3.  Every event that was sent on a channel (it sits in the queue or    *)
(* was taken from it) is stored in the event log under its id, with the    *)
(* same content.                                                           *)
(***************************************************************************)
C3_DurableBeforeDelivery ==
    \A c \in DOMAIN chans :
        \A e \in Sent(c) :
            /\ e.metadata.id \in EventIds
            /\ ev_log[e.metadata.id] = e

\* Two handlers have sent to one subscriber, and a store failed in the run.
C3_Witness ==
    /\ \E c \in DOMAIN chans : Len(chans[c].sent) >= 2
    /\ ~NoBurntId

(***************************************************************************)
(* C4.  One TimiteConnected per transition of a participant's live         *)
(* subscriptions from 0 to at least 1 and one TimiteDisconnected per       *)
(* transition back to 0: when no handler runs, the registry holds no       *)
(* closed entry and no store failed, a participant has one more connected  *)
(* than disconnected event if it has a subscription, and as many if not.   *)
(***************************************************************************)
Settled ==
    /\ Quiescent
    /\ NoBurntId
    /\ \A sub \in Values(subscribers) : ~is_closed(sub.chan)

C4_PresenceBalance ==
    Settled =>
        \A p \in Participants :
            Cardinality(LoggedOf("EventTimiteConnected", p))
              - Cardinality(LoggedOf("EventTimiteDisconnected", p))
                = IF EntriesOf(subscribers, p) = {} THEN 0 ELSE 1

(***************************************************************************)
(* C5.  When a prune (of a publish other than a disconnected event, or of  *)
(* the cleanup task) removes entries of a participant that holds two or    *)
(* more subscriptions, a TimiteDisconnected for the participant follows    *)
(* exactly if the prune left it no subscription.                           *)
(***************************************************************************)
DisconnectedScheduled(task, p) ==
    \/ /\ task.pc = "alloc"
       /\ The(task.data) = timite_disconnected_data(timites[p])
    \/ \E i \in 1..Len(task.batch) : task.batch[i].id = p

C5_LastOfSeveralDropped ==
    [][\A t \in Tasks, p \in Participants :
          ( /\ tasks[t].pc = "send"
            /\ tasks[t].todo = {}
            /\ tasks'[t].pc \in {"alloc", "done"}
            /\ \/ tasks[t].data = None
               \/ The(tasks[t].data).kind # "EventTimiteDisconnected"
            /\ Cardinality(EntriesOf(subscribers, p)) >= 2
            /\ EntriesOf(subscribers', p) # EntriesOf(subscribers, p) )
          => ( DisconnectedScheduled(tasks'[t], p)
                 <=> EntriesOf(subscribers', p) = {} )]_vars

(***************************************************************************)
(* C6.  A subscriber with receive_own_messages off is sent no message,     *)
(* call or outcome event that originates from its own participant; a       *)
(* subscriber with receive_own_messages on is sent every event published   *)
(* since its first one.  The code publishes calls with no sender to skip.  *)
(***************************************************************************)
C6_SelfFilter ==
    \A sub \in Values(subscribers) :
        /\ ~sub.receive_own_messages
               => \A e \in Sent(sub.chan) : sub.session.timite_id \notin Origin(e)
        /\ (sub.receive_own_messages /\ Quiescent /\ ~is_closed(sub.chan))
               => \A i \in EventIds :
                      (\E j \in SentIds(sub.chan) : j <= i)
                          => ev_log[i] \in Sent(sub.chan)

(***************************************************************************)
(* C7.  send_call_ability_outcome for an existing call passes to the       *)
(* publish of the outcome exactly if the stored call's timite_id is the    *)
(* session's timite_id, and returns Ok only then (the one other failure    *)
(* being a failed store of the event); on a mismatch it returns            *)
(* CallAbilityTargetMismatch, and the event log, the event counter, the    *)
(* channels and the registry are as before.                                *)
(***************************************************************************)
OutcomeCall(task) == acall_log[The(task.arg).call_ability_id]
OutcomeOfExistingCall(task) ==
    /\ task.op = "send_call_ability_outcome"
    /\ The(task.arg).call_ability_id \in DOMAIN acall_log
TargetMatches(task) == OutcomeCall(task).timite_id = The(task.session).timite_id

EventSender(e) ==
    IF e.data.kind = "EventNewMessage" THEN e.data.message.sender_id
    ELSE e.data.call_ability.sender_id

C8_SenderIntegrity ==
    \A t \in Tasks :
        (tasks[t].op \in {"send_message", "send_call_ability"} /\ tasks[t].event # None
             /\ The(tasks[t].event).data.kind \in {"EventNewMessage", "EventCallAbility"})
          => LET e == The(tasks[t].event)
             IN  /\ EventSender(e) = The(tasks[t].session).timite_id
                 /\ tasks[t].pc \in {"snapshot", "send"} => ev_log[e.metadata.id] = e
                 /\ \A c \in DOMAIN chans : \A sent \in Sent(c) :
                        sent.metadata.id = e.metadata.id => sent = e

\* A call whose request carried another sender_id was published and sent.
C8_Witness ==
    \E t \in Tasks :
        /\ tasks[t].op = "send_call_ability"
        /\ tasks[t].pc = "done"
        /\ tasks[t].res = "Ok"
        /\ The(tasks[t].arg).sender_id # The(tasks[t].session).timite_id
        /\ \E c \in DOMAIN chans : The(tasks[t].event) \in Sent(c)

(***************************************************************************)
(* C9.  Every subscriber is sent its events in strictly ascending id, also *)
(* when publishes run concurrently.  The code sends in the order in which  *)
(* the handlers reach the fan-out, not in the order of their ids.          *)
(***************************************************************************)
C9_AscendingDelivery ==
    \A c \in DOMAIN chans :
        \A i \in 1..Len(chans[c].sent), j \in 1..Len(chans[c].sent) :
            i < j => chans[c].sent[i].metadata.id < chans[c].sent[j].metadata.id

(***************************************************************************)
(* C10.  The ids a subscriber is sent have no gap but for the events the   *)
(* receive_own rule removes: once the handlers have returned, every logged *)
(* event whose id lies between two ids sent to a live subscriber was sent  *)
(* to it too.  The code takes an event's id and its snapshot of the        *)
(* registry at different moments.                                          *)
(***************************************************************************)
C10_GapFreeSuffix ==
    Quiescent =>
        \A sub \in Values(subscribers) :
            ~is_closed(sub.chan) =>
                \A i \in EventIds :
                    ( /\ \E j \in SentIds(sub.chan) : j < i
                      /\ \E j \in SentIds(sub.chan) : i < j
                      /\ ~Filtered(ev_log[i], sub) )
                    => ev_log[i] \in Sent(sub.chan)

(***************************************************************************)
(* C11.  A publish never waits for a subscriber: whenever a handler is in  *)
(* the fan-out, it can take its next step (skip, send, mark the entry      *)
(* broken, or go on to the prune) without any receiver acting, also when   *)
(* the queue of the subscriber it has reached holds BUFFER_SIZE events.    *)
(* The code awaits Sender::send, which waits for room in the queue.        *)
(***************************************************************************)
C11_NoWaitOnFullQueue ==
    \A t \in Tasks :
        tasks[t].pc = "send" => ENABLED (publish_send(t) \/ publish_prune(t))
(***************************************************************************)
(* C12.  A timeline read with offset 0 returns the last min(size, n) of    *)
(* the n persisted events in ascending id, nothing when size is 0, also    *)
(* for a log whose ids have holes.  The range below the maximum misses the *)
(* events that lie beyond a hole.                                          *)
(***************************************************************************)
TimelineRead(task) ==
    task.op = "get_timeline" /\ task.pc = "done" /\ task.res = "Ok"

Ascending(events) ==
    \A i \in 1..Len(events), j \in 1..Len(events) :
        i < j => events[i].metadata.id < events[j].metadata.id

LastIds(size) ==
    {i \in EventIds : Cardinality({j \in EventIds : j > i}) < size}

C12_TailWindow ==
    \A t \in Tasks :
        (TimelineRead(tasks[t]) /\ The(tasks[t].arg).offset = 0)
          => LET size == The(tasks[t].arg).size
                 events == The(tasks[t].ret).events
             IN  /\ Ascending(events)
                 /\ {events[i] : i \in 1..Len(events)}
                        = {ev_log[i] : i \in LastIds(size)}
                 /\ Len(events) = Cardinality(LastIds(size))
(***************************************************************************)
(* C13.  A timeline read with offset > 0 returns, in ascending id, the     *)
(* first up-to-size persisted events whose id is at least offset, leaving  *)
(* out none of them; the first one is the event with id = offset when it   *)
(* is persisted.                                                           *)
(***************************************************************************)
FirstIds(offset, size) ==
    {i \in EventIds :
        i >= offset /\ Cardinality({j \in EventIds : offset <= j /\ j < i}) < size}

C13_OffsetWindow ==
    \A t \in Tasks :
        (TimelineRead(tasks[t]) /\ The(tasks[t].arg).offset > 0)
          => LET offset == The(tasks[t].arg).offset
                 size == The(tasks[t].arg).size
                 events == The(tasks[t].ret).events
             IN  /\ Ascending(events)
                 /\ {events[i] : i \in 1..Len(events)}
                        = {ev_log[i] : i \in FirstIds(offset, size)}
                 /\ Len(events) = Cardinality(FirstIds(offset, size))
                 /\ (offset \in EventIds /\ size > 0)
                        => events[1].metadata.id = offset

\* A read from an offset above 0 has returned two events.
C13_Witness ==
    \E t \in Tasks :
        /\ TimelineRead(tasks[t])
        /\ The(tasks[t].arg).offset > 0
        /\ Len(The(tasks[t].ret).events) >= 2
(***************************************************************************)
(* C14.  The event log is write-once: a step never changes or removes the  *)
(* record persisted under an id, in the same run or after a restart.  The  *)
(* first publish after a restart stores its event under the maximum id     *)
(* already present.                                                        *)
(***************************************************************************)
C14_WriteOnce ==
    [][\A i \in DOMAIN ev_log : i \in DOMAIN ev_log' /\ ev_log'[i] = ev_log[i]]_vars
(***************************************************************************)
(* C15.  A request of any method but TrustedRegister and TrustedConnect    *)
(* that carries no session key, or a key no persisted session has, is      *)
(* answered Unauthenticated, and the step changes nothing: no record of    *)
(* the store, no counter, no queue, no entry of the registry.  (Under      *)
(* SpecSession every request of these methods carries such a token.)       *)
(***************************************************************************)
SessionMethods ==
    {"declare_abilities", "list_abilities", "send_message", "subscribe",
     "get_timeline", "send_call_ability", "send_call_ability_outcome"}

C15_Unauthenticated ==
    [][\A t \in Tasks :
          (tasks[t].pc = "idle" /\ tasks'[t].op \in SessionMethods)
            => /\ tasks'[t].pc = "done"
               /\ tasks'[t].res = "Unauthenticated"
               /\ UNCHANGED <<storeVars, upd_counter, msg_counter, call_ability_cnt,
                              id_cnt, subscribers, chans>>]_vars

\* A subscribe with an unknown key was rejected after a session was issued.
C15_Witness ==
    /\ DOMAIN sessions # DOMAIN InitSessions
    /\ \E t \in Tasks :
           /\ tasks[t].op = "subscribe"
           /\ tasks[t].res = "Unauthenticated"
           /\ The(tasks[t].arg).token = Some("bogus")

(***************************************************************************)
(* C16.  TrustedConnect with a participant id that is not registered       *)
(* returns a normal response with session = None and the error code        *)
(* TimiteNotFound (or the storage error, when the lookup itself fails),    *)
(* and no session record is created.                                       *)
(***************************************************************************)
ConnectStarts(t) ==
    /\ tasks[t].pc = "idle"
    /\ tasks'[t].op = "trusted_connect"
    /\ The(tasks'[t].arg).timite # None

ConnectId(task) == The(The(task.arg).timite).id

C16_ConnectUnknown ==
    [][\A t \in Tasks :
          (ConnectStarts(t) /\ ConnectId(tasks'[t]) \notin DOMAIN timites)
            => /\ sessions' = sessions
               /\ tasks'[t].pc = "done"
               /\ \/ tasks'[t].res = "StorageError"
                  \/ /\ tasks'[t].res = "Ok"
                     /\ tasks'[t].ret =
                            Some([session |-> None, error |-> "TimiteNotFound"])]_vars

C16_Witness ==
    \E t \in Tasks :
        /\ tasks[t].op = "trusted_connect"
        /\ tasks[t].res = "Ok"
        /\ The(tasks[t].ret).error = "TimiteNotFound"
        /\ ConnectId(tasks[t]) \notin DOMAIN timites

CallTasks == {t \in Tasks : tasks[t].op = "send_call_ability"}

\* The call ids issued so far that can still be observed.
IssuedCallIds ==
    DOMAIN acall_log
    \cup UNION {tasks[t].ret : t \in CallTasks}
    \cup UNION {ev_log[i].data.call_ability.call_ability_id :
                  i \in {j \in DOMAIN ev_log : ev_log[j].data.kind = "EventCallAbility"}}

C19_ServerAssignedCallId ==
    [][\A t \in Tasks :
          /\ ( /\ tasks'[t].op = "send_call_ability"
                /\ tasks'[t].event # None
                /\ The(tasks'[t].event).data.kind = "EventCallAbility" )
              => The(tasks'[t].event).data.call_ability.call_ability_id = tasks'[t].ret
          /\ ( tasks[t].pc = "idle" /\ tasks'[t].op = "send_call_ability"
                /\ tasks'[t].ret # None )
              => /\ tasks'[t].ret = Some(call_ability_cnt + 1)
                 /\ call_ability_cnt' = call_ability_cnt + 1
                 /\ \A id \in IssuedCallIds : The(tasks'[t].ret) > id]_vars

\* A call whose request carried a used call id was answered with a new one,
\* and the event with that id reached a subscriber.
C19_Witness ==
    \E t \in Tasks :
        /\ tasks[t].op = "send_call_ability"
        /\ tasks[t].res = "Ok"
        /\ The(tasks[t].arg).call_ability_id = Some(1)
        /\ tasks[t].ret = Some(2)
        /\ The(tasks[t].event).data.kind = "EventCallAbility"
        /\ \E c \in DOMAIN chans : The(tasks[t].event) \in Sent(c)
(***************************************************************************)
(* C20.  When store_space_event fails in a publish, the publish returns    *)
(* the error to its handler, the event it built is sent to no subscriber,  *)
(* in that step or later, and the step removes no entry of the registry.   *)
(***************************************************************************)
\* The queues hold what they held: nothing was sent in the step.
NothingSent ==
    /\ Len(chans') = Len(chans)
    /\ \A c \in DOMAIN chans : chans'[c].sent = chans[c].sent

C20_FailedStoreStopsPublish ==
    [][\A t \in Tasks :
          /\ ( tasks[t].pc = "store" /\ tasks'[t].pc # "store" /\ ev_log' = ev_log )
              => /\ tasks'[t].pc = "done"
                 /\ tasks'[t].res = "StorageError"
                 /\ NothingSent
                 /\ subscribers' = subscribers
          /\ ( tasks'[t].pc = "done" /\ tasks'[t].res = "StorageError"
                /\ tasks'[t].event # None )
              => \A c \in DOMAIN chans' :
                     \A i \in 1..Len(chans'[c].sent) :
                         chans'[c].sent[i] # The(tasks'[t].event)]_vars

\* A message's publish failed at the store while a subscriber that would have
\* been sent the event was attached with its receiver open.
C20_Witness ==
    \E t \in Tasks :
        /\ tasks[t].op = "send_message"
        /\ tasks[t].pc = "done"
        /\ tasks[t].res = "StorageError"
        /\ tasks[t].event # None
        /\ \E k \in DOMAIN subscribers :
               /\ ~is_closed(subscribers[k].chan)
               /\ subscribers[k].session.timite_id # The(tasks[t].session).timite_id
(***************************************************************************)
(* C21.  list_abilities returns one entry for each participant that has    *)
(* declared, holding exactly the set of its most recent declaration.  A    *)
(* declaration replaces the participant's set and touches no other; no     *)
(* other step changes a set; and the listing is the stored sets.           *)
(***************************************************************************)
\* Task t has just run declare_abilities to success.
Declared(t) ==
    /\ tasks[t].pc = "idle"
    /\ tasks'[t].op = "declare_abilities"
    /\ tasks'[t].res = "Ok"

CounterStep(cnt, cnt_next, log, log_next) ==
    /\ \A i \in DOMAIN log : i \in DOMAIN log_next /\ log_next[i] = log[i]
    /\ IF boot' # boot
       THEN /\ cnt_next = Max(DOMAIN log \cup {0})
            /\ log_next = log
       ELSE /\ cnt_next \in {cnt, cnt + 1}
            /\ DOMAIN log_next \ DOMAIN log \subseteq {cnt_next} \ {cnt}

C22_SuccessorIds ==
    [][/\ CounterStep(msg_counter, msg_counter', msg_log, msg_log')
       /\ CounterStep(call_ability_cnt, call_ability_cnt', acall_log, acall_log')
       /\ CounterStep(id_cnt, id_cnt', timites, timites')]_vars

\* Two messages, calls and registrations are persisted, and the handler
\* that ran after the restart stored its message under id 2.
C22_Witness ==
    /\ boot.restarts > 0
    /\ DOMAIN msg_log = {1, 2}
    /\ DOMAIN acall_log = {1, 2}
    /\ DOMAIN timites = {1, 2, 3, 4}
    /\ msg_counter = 2 /\ call_ability_cnt = 2 /\ id_cnt = 4
    /\ \E t \in Tasks :
           /\ tasks[t].op = "send_message"
           /\ tasks[t].res = "Ok"
           /\ The(tasks[t].data).kind = "EventNewMessage"
           /\ The(tasks[t].data).message.id = 2
(***************************************************************************)
(* C23.  send_message with empty or blank-only content is rejected: the    *)
(* handler returns an error, allocates no message id, persists no message  *)
(* and begins no publish.  The code has no check of the content and treats *)
(* such a message as any other.                                            *)
(***************************************************************************)
C23_BlankContentRejected ==
    [][\A t \in Tasks :
          ( /\ tasks[t].pc = "idle"
            /\ tasks'[t].op = "send_message"
            /\ The(tasks'[t].arg).content \in BlankContents )
          => /\ tasks'[t].pc = "done"
             /\ tasks'[t].res # "Ok"
             /\ tasks'[t].data = None
             /\ msg_counter' = msg_counter
             /\ msg_log' = msg_log]_vars
(***************************************************************************)
(* C24.  trusted_register with an empty nick, or without client_info, is   *)
(* rejected with InvalidArgError (or with the storage error, when storage  *)
(* fails first) and stores and returns no session.  The code checks        *)
(* client_info only: an empty nick is registered as any other.             *)
(***************************************************************************)
C24_RegisterRejectsBadArgs ==
    [][\A t \in Tasks :
          ( /\ tasks[t].pc = "idle"
            /\ tasks'[t].op = "trusted_register"
            /\ \/ The(tasks'[t].arg).nick = ""
               \/ ~The(tasks'[t].arg).has_client_info )
          => /\ tasks'[t].res \in {"InvalidArgError", "StorageError"}
             /\ tasks'[t].ret = None
             /\ sessions' = sessions]_vars
(***************************************************************************)
(* C25.  The TimiteConnected event of a subscribe is sent to every         *)
(* subscriber, the new one included, whatever its receive_own_messages:    *)
(* when the fan-out of the event has ended, the event is in the queue of   *)
(* the new subscriber (unless a later subscribe may have replaced its      *)
(* entry) and of every subscriber that was registered before it and        *)
(* still is, unless the fan-out found its channel closed.  In the code a   *)
(* publish that found the session's previous channel closed removes the    *)
(* entry by its session key, and with it the new subscription, before the  *)
(* TimiteConnected event is fanned out.                                    *)
(***************************************************************************)
ConnectedFanOutEnded(t) ==
    /\ tasks[t].op = "subscribe"
    /\ tasks[t].pc = "send"
    /\ tasks[t].todo = {}
    /\ tasks[t].event # None
    /\ The(tasks[t].event).data.kind = "EventTimiteConnected"

FoundClosed(t, sub) ==
    \E i \in 1..Len(tasks[t].disconnected) : tasks[t].disconnected[i] = sub

\* No subscribe has run since that of task t (its channel is the newest), so
\* no later subscription of the same session has replaced its entry.
NoSubscribeSince(t) == The(tasks[t].chan) = Len(chans)

C25_ConnectedSentToAll ==
    \A t \in Tasks :
        ConnectedFanOutEnded(t) =>
            /\ NoSubscribeSince(t)
                   => The(tasks[t].event) \in Sent(The(tasks[t].chan))
            /\ \A sub \in Values(subscribers) :
                   ( sub.chan < The(tasks[t].chan) /\ ~FoundClosed(t, sub) )
                   => The(tasks[t].event) \in Sent(sub.chan)

(***************************************************************************)
(* C27.  A closed channel does not fail a publish: the fan-out goes on to  *)
(* the end of its snapshot and sends the event to every subscriber that is *)
(* not skipped and whose channel is open, the publish returns success, and *)
(* the prune removes only entries whose channel is closed.  The code       *)
(* removes by session key, so the prune also takes out the open entry of a *)
(* session that has subscribed again since the snapshot.                   *)
(***************************************************************************)
\* The entries a step takes out of the registry.
RemovedEntries == {subscribers[k] : k \in DOMAIN subscribers \ DOMAIN subscribers'}

C27_ClosedChannelOnlyPruned ==
    [][\A t \in Tasks :
          tasks[t].pc = "send" /\ tasks'[t] # tasks[t] =>
             /\ \A sub \in tasks[t].todo \ tasks'[t].todo :
                    ( ~skipped(tasks[t], sub) /\ ~is_closed(sub.chan) )
                    => chans'[sub.chan].sent =
                           Append(chans[sub.chan].sent, The(tasks[t].event))
             /\ tasks'[t].pc # "send" => tasks[t].todo = {}
             /\ tasks'[t].pc = "done" => tasks'[t].res = "Ok"
             /\ \A sub \in RemovedEntries : is_closed(sub.chan)]_vars

(***************************************************************************)
(* C26.  Every publish stamps its event with the successor of the value    *)
(* the counter had, so that the first event on an empty store has id 1 and *)
(* no event is stored or sent with id 0.  The code stamps the value        *)
(* fetch_add returns, which is the value the counter had.                  *)
(***************************************************************************)
C26_StrictSuccessor ==
    [][/\ \A t \in Tasks :
            ( tasks[t].pc = "alloc" /\ tasks'[t].pc = "store" )
            => The(tasks'[t].event).metadata.id = upd_counter + 1
       /\ 0 \notin DOMAIN ev_log'
       /\ \A c \in DOMAIN chans' :
            \A i \in 1..Len(chans'[c].sent) : chans'[c].sent[i].metadata.id # 0]_vars

(***************************************************************************)
(* C28.  A TimiteDisconnected event that a publish emits for a subscriber  *)
(* it found broken has an id greater than that of the event the publish    *)
(* was for, and a subscriber that is sent both is sent that event first.   *)
(***************************************************************************)
\* Task t is publishing a disconnected event on behalf of a publish.
SyntheticPublish(t) ==
    /\ tasks[t].origin # None
    /\ tasks[t].event # None
    /\ The(tasks[t].event).data.kind = "EventTimiteDisconnected"

Position(c, e) == CHOOSE i \in 1..Len(chans[c].sent) : chans[c].sent[i] = e

C28_DisconnectedAfterOrigin ==
    \A t \in Tasks :
        SyntheticPublish(t) =>
            LET event == The(tasks[t].event)
                origin == The(tasks[t].origin)
            IN  /\ event.metadata.id > origin.metadata.id
                /\ \A c \in DOMAIN chans :
                       ( event \in Sent(c) /\ origin \in Sent(c) )
                       => Position(c, origin) < Position(c, event)

\* A subscriber was sent a message and then the disconnected event of the
\* subscriber that the message's fan-out found closed.
C28_Witness ==
    \E t \in Tasks :
        /\ SyntheticPublish(t)
        /\ tasks[t].op = "send_message"
        /\ \E c \in DOMAIN chans :
               /\ The(tasks[t].event) \in Sent(c)
               /\ The(tasks[t].origin) \in Sent(c)

(***************************************************************************)
(* C29.  Whenever a prune leaves a participant with no subscription, a     *)
(* TimiteDisconnected event for the participant is published, also when    *)
(* the prune is that of a TimiteDisconnected publish.  The code drops the  *)
(* result of the prune in publish_timite_disconnected.                     *)
(***************************************************************************)
\* The participants that the step leaves with no entry in the registry.
LeftWithout ==
    {p \in Participants :
        EntriesOf(subscribers, p) # {} /\ EntriesOf(subscribers', p) = {}}

C29_DisconnectedForEveryLeft ==
    [][\A t \in Tasks :
          ( /\ tasks[t].pc = "send"
            /\ tasks[t].todo = {}
            /\ tasks'[t].pc \in {"alloc", "done"} )
          => \A p \in LeftWithout : DisconnectedScheduled(tasks'[t], p)]_vars

(***************************************************************************)
(* C30.  The call that send_call_ability persists under id K is the copy   *)
(* with the server's fields: call_ability_id K and the session's           *)
(* participant as sender_id, with timite_id, name and payload as the       *)
(* request gave them.  The code stores the call as the request gave it and *)
(* overwrites the fields on the copy it publishes only.                    *)
(***************************************************************************)
C30_PersistedCallHasServerFields ==
    [][\A t \in Tasks :
          ( /\ tasks[t].pc = "idle"
            /\ tasks'[t].op = "send_call_ability"
            /\ acall_log' # acall_log )
          => LET K == The(tasks'[t].ret)
                 request == The(tasks'[t].arg)
                 session == The(tasks'[t].session)
             IN  /\ K \in DOMAIN acall_log'
                 /\ acall_log'[K].call_ability_id = Some(K)
                 /\ acall_log'[K].sender_id = session.timite_id
                 /\ acall_log'[K].timite_id = request.timite_id
                 /\ acall_log'[K].name = request.name
                 /\ acall_log'[K].payload = request.payload]_vars

(***************************************************************************)
(* C31.  cleanup_disconnected removes every entry that its snapshot found  *)
(* closed, and the number it returns is the number of entries its prune    *)
(* took out of the registry, also when another task prunes at the same     *)
(* time.  The code counts the closed entries of the snapshot before the    *)
(* prune, which skips the entries another task has removed meanwhile.      *)
(***************************************************************************)
\* Task t is the cleanup at its call of prune_disconnected.
CleanupPrunes(t) ==
    /\ tasks[t].op = "cleanup_disconnected"
    /\ tasks[t].pc = "send"
    /\ tasks[t].data = None
    /\ tasks'[t] # tasks[t]

C31_CleanupCountsRemoved ==
    [][\A t \in Tasks :
          CleanupPrunes(t) =>
             /\ \A i \in 1..Len(tasks[t].disconnected) :
                    tasks[t].disconnected[i] \notin Values(subscribers')
             /\ The(tasks[t].ret) =
                    Cardinality(DOMAIN subscribers \ DOMAIN subscribers')]_vars

(***************************************************************************)
(* C32.  No task holds a guard of the subscribers lock while it is at a    *)
(* storage write or a channel send: a publish has dropped the read guard   *)
(* of its snapshot before it sends, and subscribe, the prune and the       *)
(* cleanup have dropped their guard before a publish they trigger          *)
(* allocates, stores or sends.                                             *)
(***************************************************************************)
C32_NoGuardAcrossAwait ==
    \A t \in Tasks :
        tasks[t].pc \in {"alloc", "store", "snapshot", "send", "done"}
            => tasks[t].guard = "none"

\* A subscribe is about to store its connected event after its block under
\* the write guard, while another publish is in the middle of its sends and
\* has found a closed channel that it is going to prune.
C32_Witness ==
    \E t \in Tasks, u \in Tasks :
        /\ tasks[t].op = "subscribe"
        /\ tasks[t].pc = "store"
        /\ tasks[u].pc = "send"
        /\ tasks[u].todo # {}
        /\ tasks[u].disconnected # <<>>
        /\ subscribers # EmptyMap

(***************************************************************************)
(* C33.  register maps each nick to a single id: no two calls return       *)
(* different ids for one nick, and a call that finds the nick registered   *)
(* returns the id of the index and leaves id_counter as it was.  In the    *)
(* code the lookup and the writes are separate accesses: two threads that  *)
(* register one nick at the same time both find it missing and both        *)
(* allocate.                                                               *)
(***************************************************************************)
C33_NickHasOneId ==
    [][/\ \A r1 \in rocks'.returned, r2 \in rocks'.returned :
            r1.nick = r2.nick => r1.id = r2.id
       /\ \A th \in Threads :
            LET call == rocks'.calls[th]
                existing_id == get_value(rocks.db, timite_nick_key(call.nick))
            IN  ( /\ rocks.calls[th].pc = "idle"
                  /\ call.pc # "idle"
                  /\ call.res # "StorageError"
                  /\ existing_id # None )
                => /\ call.pc = "done"
                   /\ call.res = "Ok"
                   /\ call.id \in existing_id
                   /\ rocks'.id_counter = rocks.id_counter]_vars

(***************************************************************************)
(* C40.  No participant id is handed out twice by next_id, also after the  *)
(* database is opened again, and the persisted counter is never lower than *)
(* an id handed out + 1.  In the code the fetch_add and the put of id + 1  *)
(* are separate accesses: of two threads the one with the smaller id may   *)
(* put last, and the counter loaded at the next start hands the larger id  *)
(* out again.                                                              *)
(***************************************************************************)
C40_NoIdIssuedTwice ==
    /\ \A i \in 1..Len(rocks.handed), j \in 1..Len(rocks.handed) :
           i # j => rocks.handed[i] # rocks.handed[j]
    /\ \A i \in 1..Len(rocks.handed) :
           unwrap_or(get_value(rocks.db, timite_counter_key), 1) >= rocks.handed[i] + 1

(***************************************************************************)
(* C34.  In the event log the TimiteConnected and TimiteDisconnected       *)
(* events of a participant alternate in the order of their ids, beginning  *)
(* with TimiteConnected (looked at when no handler is in flight).  In the  *)
(* code subscribe drops the closed entries from the registry without a     *)
(* TimiteDisconnected event, finds the participant absent and publishes a  *)
(* second TimiteConnected.                                                 *)
(***************************************************************************)
PresenceIds(p) ==
    LoggedOf("EventTimiteConnected", p) \cup LoggedOf("EventTimiteDisconnected", p)

C34_PresenceAlternates ==
    Quiescent =>
        \A p \in Participants :
            \A i \in PresenceIds(p) :
                LET earlier == {j \in PresenceIds(p) : j < i}
                IN  IF earlier = {}
                    THEN ev_log[i].data.kind = "EventTimiteConnected"
                    ELSE ev_log[i].data.kind # ev_log[Max(earlier)].data.kind

(***************************************************************************)
(* C35.  The prune of a publish or of the cleanup takes out of the         *)
(* registry only entries that the task found broken: an entry that is      *)
(* removed is one of the task's disconnected list.  The code removes       *)
(* whatever entry is registered under the session key of a broken entry,   *)
(* and with it the entry of a session that has subscribed again.           *)
(***************************************************************************)
C35_PruneRemovesOnlyBroken ==
    [][\A t \in Tasks :
          ( /\ tasks[t].pc = "send"
            /\ tasks[t].todo = {}
            /\ tasks'[t] # tasks[t] )
          => \A sub \in Values(subscribers) \ Values(subscribers') :
                 FoundClosed(t, sub)]_vars

(***************************************************************************)
(* C36.  Every CallAbilityOutcome event of the log names a call whose      *)
(* CallAbility event is in the log with a smaller event id.  The code      *)
(* admits an outcome as soon as the call is stored, which is before the    *)
(* call's event is allocated and stored, and whether or not that store     *)
(* succeeds.                                                               *)
(***************************************************************************)
CallEventIds(call_ability_id) ==
    {j \in EventIds :
        /\ ev_log[j].data.kind = "EventCallAbility"
        /\ ev_log[j].data.call_ability.call_ability_id = Some(call_ability_id)}

C36_OutcomeAfterCallEvent ==
    \A i \in EventIds :
        ev_log[i].data.kind = "EventCallAbilityOutcome" =>
            \E j \in CallEventIds(ev_log[i].data.call_ability_outcome.call_ability_id) :
                j < i

(***************************************************************************)
(* C37.  At most one CallAbilityOutcome event is published for a call: no  *)
(* two events of the log, and no two events sent to a subscriber, are      *)
(* outcomes of the same call_ability_id.  The code looks at the stored     *)
(* call and its target only and publishes every outcome it is sent.        *)
(***************************************************************************)
IsOutcomeOf(e, call_ability_id) ==
    /\ e.data.kind = "EventCallAbilityOutcome"
    /\ e.data.call_ability_outcome.call_ability_id = call_ability_id

C37_OneOutcomePerCall ==
    \A call_ability_id \in 1..call_ability_cnt :
        /\ Cardinality({i \in EventIds : IsOutcomeOf(ev_log[i], call_ability_id)}) <= 1
        /\ \A c \in DOMAIN chans :
               Cardinality({e \in Sent(c) : IsOutcomeOf(e, call_ability_id)}) <= 1

(***************************************************************************)
(* C38.  A timeline_stream with a page size above 0 that has ended without *)
(* an error has yielded every event of the log exactly once, in ascending  *)
(* id.  The stream starts at offset 0, which the server answers with the   *)
(* newest page_size events, and goes on from the offset page_size, which   *)
(* the server takes for an event id.                                       *)
(***************************************************************************)
C38_StreamYieldsLog ==
    ( /\ stream.pc = "ended"
      /\ stream.page_size > 0
      /\ ~stream.failed )
    => stream.yielded = range_read(ev_log, 0, fetch_max_event_id(ev_log))

(***************************************************************************)
(* C39.  A trusted_register that is rejected for missing client_info       *)
(* leaves the state as it was: no participant is stored, id_cnt does not   *)
(* advance and no session is stored.  The code creates the participant     *)
(* before it looks at client_info.                                         *)
(***************************************************************************)
C39_RejectedRegisterNoEffect ==
    [][\A t \in Tasks :
          ( /\ tasks[t].pc = "idle"
            /\ tasks'[t].op = "trusted_register"
            /\ tasks'[t].res = "InvalidArgError" )
          => /\ timites' = timites
             /\ id_cnt' = id_cnt
             /\ sessions' = sessions]_vars
====
